---- MODULE Spec2Model ----
(***************************************************************************)
(* Recommendations manager of the state driver                             *)
(* (src/state-driver/src/recsManager.ts): the module-level store           *)
(* recsManagerStore, the instance registry recsManagerInstances, the       *)
(* response cache recsCache, the effect fetchRecsFx with its pending/done/ *)
(* fail watchers, and the navigation API; and the UI functions over       *)
(* recsInputStore and recsOutputStore (recsInputStore.ts,                  *)
(* recsOutputStore.ts).                                                    *)
(*                                                                         *)
(* Conventions.  A JavaScript value that may be null/undefined is a        *)
(* sequence of length 0 (absent) or 1 (present).  A Map is a function      *)
(* whose DOMAIN is the set of keys (recsManagerInstances) or, where the    *)
(* insertion order is read by the code, a sequence of entries (recsCache). *)
(* Date.now() is the variable now.  lastOp is a history variable: the      *)
(* call that produced the current state, its argument, the error it threw, *)
(* the page and page size read before it and, for a call that starts a     *)
(* fetch, what the cache held for its fingerprint before the call.         *)
(*                                                                         *)
(* The search manager (src/public-api/src/index.ts: the sample over         *)
(* searchInputStore that calls searchFx, and the pending/done/fail         *)
(* watchers) and the URL manager (urlManager.ts with urlManagerUtils.ts:   *)
(* the watcher that writes the browser URL and the popstate listener) are  *)
(* modelled by the variables of searchVars and the specification           *)
(* SpecSearch.                                                             *)
(*                                                                         *)
(* Not modelled here: the lastUsed timestamps of the registry (written,    *)
(* never read by an operation), debug logging and the popstate listener    *)
(* of setupGlobalWatchers.  The store watcher installed by setupWatchers   *)
(* (it writes the fields startIndex/endIndex, which no operation reads)    *)
(* is modelled by storeWatch and the specification SpecWatch; the other    *)
(* specifications describe the operations without that watcher.            *)
(***************************************************************************)
EXTENDS Integers, Sequences, FiniteSets, TLC

VARIABLES
    store,                      \* recsManagerStore: RecsManagerState
    recsManagerInstances,       \* Map<string, RecsManagerInstance>
    recsCache,                  \* Map<string, CacheEntry>, insertion order
    inFlight,                   \* calls of fetchRecsFx not yet settled
    fxWatchers,                 \* pending/done/fail watchers installed
    globalWatchersInitialized,
    now,                        \* Date.now()
    calls,                      \* number of calls of fetchRecsFx so far
    lastOp,                     \* history: the last call and its outcome
    recsInputStore,             \* recsInputStore: RecsParams
    recsOutputStore,            \* recsOutputStore: RecsResultsOutput
    storeWatch,                 \* the store watchers of setupWatchers
    searchInputStore,           \* searchInputStore: SearchParams
    searchOutputStore,          \* searchOutputStore: loading and error
    searchManagerInitialized,   \* initSearchManager.initialized
    searchInFlight,             \* calls of searchFx not yet settled
    urlManager,                 \* initUrlManager: its flags and parameters
    location,                   \* the search parameters in window.location
    searchStats                 \* history: calls counted since the start

\* the variables of the recommendations manager, history apart
recsVars == <<store, recsManagerInstances, recsCache, inFlight, fxWatchers,
              globalWatchersInitialized, now, calls>>
\* the input and output stores the UI functions work on
uiVars == <<recsInputStore, recsOutputStore>>
\* the variables no operation of the fetch and navigation API writes
restVars == <<uiVars, storeWatch, searchInputStore, searchOutputStore,
              searchManagerInitialized, searchInFlight, urlManager, location,
              searchStats>>
\* the variables of the search manager and of the URL manager
searchVars == <<searchInputStore, searchOutputStore, searchManagerInitialized,
                searchInFlight, urlManager, location, searchStats>>

vars == <<store, recsManagerInstances, recsCache, inFlight, fxWatchers,
          globalWatchersInitialized, now, calls, lastOp, recsInputStore,
          recsOutputStore, storeWatch, searchInputStore, searchOutputStore,
          searchManagerInitialized, searchInFlight, urlManager, location,
          searchStats>>

----------------------------------------------------------------------------
(* Bounds *)

MaxProducts == 3        \* the collaborator returns at most MaxProducts items
MaxPageSize == 2        \* setPageSize is called with -1..MaxPageSize
MaxCalls == 3           \* calls of fetchRecsFx in a run without navigation
MaxNavCalls == 2        \* calls of fetchRecsFx in a run with navigation
MaxCacheCalls == 2      \* calls of fetchRecsFx in a run where time passes
MaxTime == 2            \* Date.now() goes from 0 to MaxTime
MaxEvictCalls == 2      \* calls of fetchRecsFx on a cache that is nearly full
MaxConfigCalls == 2     \* calls of fetchRecsFx in a run over all the configs
MaxLifeCalls == 1       \* calls of fetchRecsFx in a run that destroys instances
MaxJumpCalls == 1       \* calls of fetchRecsFx in a run with jumps
MaxUiPages == 3         \* the output store reports 0..MaxUiPages pages
MaxWatcherUpdates == 12 \* store updates followed after one call
MaxSearchCalls == 2     \* calls of searchFx in a run
MaxUserActions == 2     \* user actions (UI functions, back/forward) in a run
MaxPushStates == 1      \* calls of history.pushState in a run
MaxSearchPage == 2      \* a URL names a page in 1..MaxSearchPage

(* Program constants *)

DEFAULT_CACHE_TTL == 300000
DEFAULT_MAX_API_RESULTS == 100
MAX_CACHE_SIZE == 20

----------------------------------------------------------------------------
(* Configurations the callers pass to initRecsManager *)

BaseConfig ==
    [shopTenant |-> "shop", appEnv |-> "Production", name |-> "similar",
     collection |-> "Production", fields |-> <<>>, uiPageSize |-> 1,
     productID |-> <<"p1">>, visitorId |-> <<>>, loginId |-> <<>>,
     filters |-> <<>>, mergeShopifyData |-> <<>>, maxApiResults |-> <<>>,
     cacheTTL |-> <<1>>]

CfgP1 == BaseConfig
CfgP2 == [BaseConfig EXCEPT !.productID = <<"p2">>, !.uiPageSize = 2]
CfgBad == [BaseConfig EXCEPT !.uiPageSize = 0]

Configs == {CfgP1, CfgP2, CfgBad}

\* configs with the fingerprint of CfgP1: cacheTTL 0, cacheTTL unspecified,
\* another maxApiResults
CfgTtl0 == [BaseConfig EXCEPT !.cacheTTL = <<0>>]
CfgNoTtl == [BaseConfig EXCEPT !.cacheTTL = <<>>]
CfgMax == [BaseConfig EXCEPT !.maxApiResults = <<MaxProducts - 1>>]
CacheConfigs == {CfgP1, CfgP2, CfgTtl0, CfgNoTtl, CfgMax}

\* configs at and beyond the limits validateConfig checks
CfgNoTenant == [BaseConfig EXCEPT !.shopTenant = ""]
CfgNoName == [BaseConfig EXCEPT !.name = ""]
CfgNoCollection == [BaseConfig EXCEPT !.collection = ""]
CfgNegSize == [BaseConfig EXCEPT !.uiPageSize = -1]
CfgMax0 == [BaseConfig EXCEPT !.maxApiResults = <<0>>]
CfgNegMax == [BaseConfig EXCEPT !.maxApiResults = <<-1>>]
CfgNegTtl == [BaseConfig EXCEPT !.cacheTTL = <<-1>>]
ConfigInputs ==
    {CfgP1, CfgP2, CfgTtl0, CfgNoTtl, CfgMax, CfgMax0, CfgBad, CfgNegSize,
     CfgNoTenant, CfgNoName, CfgNoCollection, CfgNegMax, CfgNegTtl}
InstanceIds == {"a", "b"}
ErrorMessages == {"network down"}
PageNumbers == (-1) .. (MaxProducts + 1)
PageSizes == (-1) .. MaxPageSize
\* arguments of a call of calculatePaginationInfo: pages before the first
\* and beyond the last, page sizes > 0, item counts from 0
PageInputs == -1 .. (2 * MaxProducts + 2)
SizeInputs == 1 .. (MaxPageSize + 1)
ItemInputs == 0 .. (2 * MaxProducts + 1)

----------------------------------------------------------------------------
(* Small helpers *)

Min(x, y) == IF x <= y THEN x ELSE y
Max(x, y) == IF x >= y THEN x ELSE y
\* Math.ceil(a / b) for a >= 0, b > 0
Ceil(a, b) == (a + b - 1) \div b
\* x || d on an optional number: undefined and 0 are falsy
OrDefault(x, d) == IF x = <<>> \/ x[1] = 0 THEN d ELSE x[1]
\* Faulty variant of Slice: the item at index e is included
Slice_inclusive(seq, s, e) == SubSeq(seq, s + 1, Min(e + 1, Len(seq)))
\* Array.prototype.slice(s, e) with 0 <= s
Slice(seq, s, e) == SubSeq(seq, s + 1, Min(e, Len(seq)))
RemoveAt(seq, i) == SubSeq(seq, 1, i - 1) \o SubSeq(seq, i + 1, Len(seq))

----------------------------------------------------------------------------
(* Store *)

initialState ==
    [products |-> <<>>, currentPage |-> 1, uiPageSize |-> 5,
     totalPages |-> 0, loading |-> FALSE, error |-> <<>>,
     rawResponse |-> <<>>, lastFetched |-> <<>>, cacheKey |-> <<>>,
     totalProducts |-> 0, hasNextPage |-> FALSE, hasPreviousPage |-> FALSE,
     pageStartIndex |-> 0, pageEndIndex |-> 0, isFirstPage |-> TRUE,
     isLastPage |-> TRUE]

\* Faulty variant of calculatePaginationInfo: currentPage is not clamped
calculatePaginationInfo_unclamped(currentPage, uiPageSize, totalProducts) ==
    LET totalPages == Max(1, Ceil(totalProducts, uiPageSize))
        validCurrentPage == currentPage
        pageStartIndex == (validCurrentPage - 1) * uiPageSize
        pageEndIndex == Min(pageStartIndex + uiPageSize, totalProducts)
        isFirstPage == validCurrentPage = 1
        isLastPage == validCurrentPage = totalPages
    IN  [totalPages |-> totalPages, totalProducts |-> totalProducts,
         hasNextPage |-> ~isLastPage, hasPreviousPage |-> ~isFirstPage,
         pageStartIndex |-> pageStartIndex, pageEndIndex |-> pageEndIndex,
         isFirstPage |-> isFirstPage, isLastPage |-> isLastPage]

calculatePaginationInfo(currentPage, uiPageSize, totalProducts) ==
    LET totalPages == Max(1, Ceil(totalProducts, uiPageSize))
        validCurrentPage == Max(1, Min(currentPage, totalPages))
        pageStartIndex == (validCurrentPage - 1) * uiPageSize
        pageEndIndex == Min(pageStartIndex + uiPageSize, totalProducts)
        isFirstPage == validCurrentPage = 1
        isLastPage == validCurrentPage = totalPages
    IN  [totalPages |-> totalPages, totalProducts |-> totalProducts,
         hasNextPage |-> ~isLastPage, hasPreviousPage |-> ~isFirstPage,
         pageStartIndex |-> pageStartIndex, pageEndIndex |-> pageEndIndex,
         isFirstPage |-> isFirstPage, isLastPage |-> isLastPage]

\* { ...state, ...paginationInfo }
WithPagination(state, info) ==
    [state EXCEPT !.totalPages = info.totalPages,
                  !.totalProducts = info.totalProducts,
                  !.hasNextPage = info.hasNextPage,
                  !.hasPreviousPage = info.hasPreviousPage,
                  !.pageStartIndex = info.pageStartIndex,
                  !.pageEndIndex = info.pageEndIndex,
                  !.isFirstPage = info.isFirstPage,
                  !.isLastPage = info.isLastPage]

PaginationFields(state) ==
    [totalPages |-> state.totalPages, totalProducts |-> state.totalProducts,
     hasNextPage |-> state.hasNextPage,
     hasPreviousPage |-> state.hasPreviousPage,
     pageStartIndex |-> state.pageStartIndex,
     pageEndIndex |-> state.pageEndIndex,
     isFirstPage |-> state.isFirstPage, isLastPage |-> state.isLastPage]

----------------------------------------------------------------------------
(* Cache *)

\* JSON.stringify of the eight key fields: the other fields of the config
\* (appEnv, uiPageSize, maxApiResults, cacheTTL, mergeShopifyData) are dropped
generateCacheKey(config) ==
    [shopTenant |-> config.shopTenant, name |-> config.name,
     collection |-> config.collection, productID |-> config.productID,
     visitorId |-> config.visitorId, loginId |-> config.loginId,
     filters |-> config.filters, fields |-> config.fields]

\* History records.  matched: the fingerprint of the fetch equals the
\* cacheKey the store holds when its watcher runs (fetch operations only).
NoOp == [op |-> "none", arg |-> 0, threw |-> "", matched |-> FALSE,
         prePage |-> 0, preSize |-> 0, entry |-> "none"]
Op(name, arg, threw) ==
    [op |-> name, arg |-> arg, threw |-> threw, matched |-> FALSE,
     prePage |-> store.currentPage, preSize |-> store.uiPageSize,
     entry |-> "none"]
FetchOp(name, arg, threw, config) ==
    [Op(name, arg, threw) EXCEPT
        !.matched = (store.cacheKey = <<generateCacheKey(config)>>)]

CacheIndex(cache, cacheKey) ==
    IF \E i \in 1 .. Len(cache) : cache[i].key = cacheKey
    THEN CHOOSE i \in 1 .. Len(cache) : cache[i].key = cacheKey
    ELSE 0

\* Faulty variant of getCachedData: an entry is still returned at the very
\* time it expires
getCachedData_late(cache, cacheKey, t) ==
    LET i == CacheIndex(cache, cacheKey)
    IN  IF i = 0 THEN <<>>
        ELSE IF t > cache[i].expiresAt THEN <<>>
        ELSE <<cache[i]>>

\* the entry getCachedData returns (<<>> for null) at time t
getCachedData(cache, cacheKey, t) ==
    LET i == CacheIndex(cache, cacheKey)
    IN  IF i = 0 THEN <<>>
        ELSE IF t >= cache[i].expiresAt THEN <<>>
        ELSE <<cache[i]>>

\* the cache getCachedData leaves behind: an expired entry is deleted
CacheAfterGet(cache, cacheKey, t) ==
    LET i == CacheIndex(cache, cacheKey)
    IN  IF i # 0 /\ t >= cache[i].expiresAt THEN RemoveAt(cache, i)
        ELSE cache

\* what the cache holds for cacheKey at time t
EntryStatus(cache, cacheKey, t) ==
    LET i == CacheIndex(cache, cacheKey)
    IN  IF i = 0 THEN "absent"
        ELSE IF t >= cache[i].expiresAt THEN "expired"
        ELSE "live"

\* history record of a call that starts a fetch for config
StartOp(name, config) ==
    [FetchOp(name, 0, "", config) EXCEPT
        !.entry = EntryStatus(recsCache, generateCacheKey(config), now)]

cleanupExpiredCache(cache, t) ==
    SelectSeq(cache, LAMBDA e : ~(t >= e.expiresAt))

\* Map.set: an existing key keeps its position
MapSet(cache, entry) ==
    LET i == CacheIndex(cache, entry.key)
    IN  IF i = 0 THEN Append(cache, entry)
        ELSE [cache EXCEPT ![i] = entry]

\* number of entries that a stable sort by timestamp puts before entry i
RankByTimestamp(cache, i) ==
    Cardinality({j \in 1 .. Len(cache) :
        \/ cache[j].timestamp < cache[i].timestamp
        \/ (cache[j].timestamp = cache[i].timestamp /\ j < i)})

\* Faulty variant of EvictOldest: the newest entries are removed
EvictOldest_newest(cache) ==
    IF Len(cache) > MAX_CACHE_SIZE
    THEN LET drop == Len(cache) - MAX_CACHE_SIZE
             keep == {i \in 1 .. Len(cache) :
                         RankByTimestamp(cache, i) < Len(cache) - drop}
             F[i \in 0 .. Len(cache)] ==
                 IF i = 0 THEN <<>>
                 ELSE IF i \in keep THEN Append(F[i - 1], cache[i])
                 ELSE F[i - 1]
         IN  F[Len(cache)]
    ELSE cache

EvictOldest(cache) ==
    IF Len(cache) > MAX_CACHE_SIZE
    THEN LET drop == Len(cache) - MAX_CACHE_SIZE
             keep == {i \in 1 .. Len(cache) : RankByTimestamp(cache, i) >= drop}
             F[i \in 0 .. Len(cache)] ==
                 IF i = 0 THEN <<>>
                 ELSE IF i \in keep THEN Append(F[i - 1], cache[i])
                 ELSE F[i - 1]
         IN  F[Len(cache)]
    ELSE cache

setCachedData(cache, cacheKey, data, config, t) ==
    LET cacheTTL == OrDefault(config.cacheTTL, DEFAULT_CACHE_TTL)
        entry == [key |-> cacheKey, data |-> data, timestamp |-> t,
                  expiresAt |-> t + cacheTTL, config |-> config]
    IN  cleanupExpiredCache(EvictOldest(MapSet(cache, entry)), t)

----------------------------------------------------------------------------
(* Collaborator requestRecommendations: n items for the request made for  *)
(* config; each item carries the config its request was made for           *)

\* the arguments fetchRecsFx passes to requestRecommendations for config
\* (shopifyConfig, which the configs of this model do not set, left out)
Request(config) ==
    [shopTenant |-> config.shopTenant, appEnv |-> config.appEnv,
     name |-> config.name,
     fields |-> IF config.fields = <<>> THEN <<"*">> ELSE config.fields[1],
     collection |-> config.collection,
     pageSize |-> OrDefault(config.maxApiResults, DEFAULT_MAX_API_RESULTS),
     productID |-> config.productID, visitorId |-> config.visitorId,
     loginId |-> config.loginId, filters |-> config.filters,
     mergeShopifyData |-> IF config.mergeShopifyData = <<>> THEN TRUE
                          ELSE config.mergeShopifyData[1]]

ApiResponse(config, n) ==
    [products |-> [i \in 1 .. n |-> [src |-> config, idx |-> i]],
     rawResponse |-> <<n>>]

ResultSizes(config) ==
    {n \in {MaxProducts - 1, MaxProducts} :
        n <= OrDefault(config.maxApiResults, DEFAULT_MAX_API_RESULTS)}

(* A cache that earlier fetches have filled: one entry per product id of   *)
(* FillerIds, in insertion order.  The entries at the positions old were   *)
(* written at time 0, the others were written again at time 1 (a refresh   *)
(* keeps the position of the key); the entry at position short has a      *)
(* cacheTTL with which it expires at time 2, the others the default TTL.   *)

FillerIds ==
    <<"q01", "q02", "q03", "q04", "q05", "q06", "q07", "q08", "q09", "q10",
      "q11", "q12", "q13", "q14", "q15", "q16", "q17", "q18", "q19", "q20">>

FillerConfig(i, ttl) ==
    [BaseConfig EXCEPT !.productID = <<FillerIds[i]>>, !.cacheTTL = ttl]

FilledCache(n, old, short) ==
    [i \in 1 .. n |->
        LET t == IF i \in old THEN 0 ELSE 1
            config == FillerConfig(i, IF i = short THEN <<2 - t>> ELSE <<>>)
        IN  [key |-> generateCacheKey(config),
             data |-> ApiResponse(config, MaxProducts - 1),
             timestamp |-> t,
             expiresAt |-> t + OrDefault(config.cacheTTL, DEFAULT_CACHE_TTL),
             config |-> config]]

FillerPositions == {1, MAX_CACHE_SIZE - 1}
EvictConfigs == {CfgP1, CfgP2, FillerConfig(1, <<>>)}

----------------------------------------------------------------------------
(* Registry *)

\* Faulty variant of validateConfig: the cacheTTL is not checked
validateConfig_anyTtl(config) ==
    IF config.shopTenant = "" THEN "RecsConfigError"
    ELSE IF config.name = "" THEN "RecsConfigError"
    ELSE IF config.collection = "" THEN "RecsConfigError"
    ELSE IF config.uiPageSize <= 0 THEN "RecsConfigError"
    ELSE IF config.maxApiResults # <<>> /\ config.maxApiResults[1] # 0
            /\ config.maxApiResults[1] <= 0 THEN "RecsConfigError"
    ELSE ""

\* the error validateConfig throws, "" if none
validateConfig(config) ==
    IF config.shopTenant = "" THEN "RecsConfigError"
    ELSE IF config.name = "" THEN "RecsConfigError"
    ELSE IF config.collection = "" THEN "RecsConfigError"
    ELSE IF config.uiPageSize <= 0 THEN "RecsConfigError"
    ELSE IF config.maxApiResults # <<>> /\ config.maxApiResults[1] # 0
            /\ config.maxApiResults[1] <= 0 THEN "RecsConfigError"
    ELSE IF config.cacheTTL # <<>> /\ config.cacheTTL[1] # 0
            /\ config.cacheTTL[1] < 0 THEN "RecsConfigError"
    ELSE ""

\* the error validateInstance throws, "" if none
validateInstance(instances, instanceId) ==
    IF instanceId \notin DOMAIN instances THEN "RecsInstanceError"
    ELSE IF ~instances[instanceId].initialized THEN "RecsInstanceError"
    ELSE ""

Pending == Len(inFlight) > 0

----------------------------------------------------------------------------
(* Watchers of fetchRecsFx, installed by initRecsManager *)

\* fetchRecsFx.pending.watch, run when pending turns true
pendingWatch(current) ==
    [current EXCEPT !.loading = TRUE, !.error = <<>>]

\* Faulty variant of doneWatch: the result is applied whatever the cacheKey
doneWatch_unguarded(current, result, params, t) ==
    WithPagination(
        [current EXCEPT !.products = result.products,
                        !.loading = FALSE,
                        !.error = <<>>,
                        !.rawResponse = <<result.rawResponse>>,
                        !.lastFetched = <<t>>],
        calculatePaginationInfo(current.currentPage, current.uiPageSize,
                                Len(result.products)))

\* fetchRecsFx.done.watch
doneWatch(current, result, params, t) ==
    IF current.cacheKey # <<generateCacheKey(params)>> THEN current
    ELSE WithPagination(
             [current EXCEPT !.products = result.products,
                             !.loading = FALSE,
                             !.error = <<>>,
                             !.rawResponse = <<result.rawResponse>>,
                             !.lastFetched = <<t>>],
             calculatePaginationInfo(current.currentPage, current.uiPageSize,
                                     Len(result.products)))

\* fetchRecsFx.fail.watch
failWatch(current, message, params) ==
    IF current.cacheKey # <<generateCacheKey(params)>> THEN current
    ELSE [current EXCEPT !.loading = FALSE,
                         !.error = <<[wrapped |-> FALSE, message |-> message]>>]

\* Faulty variant of fetchRecommendations_catch: the error is thrown again
\* and the store is left as the fail watcher left it
fetchRecommendations_catch_rethrows(current, message) == current

\* the catch block of fetchRecommendations
fetchRecommendations_catch(current, message) ==
    [current EXCEPT !.loading = FALSE,
                    !.error = <<[wrapped |-> TRUE, message |-> message]>>]

----------------------------------------------------------------------------
(* Navigation: the updates applied to the store *)

\* Faulty variant of nextPage_update: no wrap-around on the last page
nextPage_nowrap(state) ==
    IF Len(state.products) = 0 THEN state
    ELSE LET totalPages == Ceil(Len(state.products), state.uiPageSize)
             newPage == IF state.currentPage >= totalPages THEN totalPages
                        ELSE state.currentPage + 1
         IN  [state EXCEPT !.currentPage = newPage]

nextPage_update(state) ==
    IF Len(state.products) = 0 THEN state
    ELSE LET totalPages == Ceil(Len(state.products), state.uiPageSize)
             newPage == IF state.currentPage >= totalPages THEN 1
                        ELSE state.currentPage + 1
         IN  [state EXCEPT !.currentPage = newPage]

previousPage_update(state) ==
    IF Len(state.products) = 0 THEN state
    ELSE LET totalPages == Ceil(Len(state.products), state.uiPageSize)
             newPage == IF state.currentPage <= 1 THEN totalPages
                        ELSE state.currentPage - 1
         IN  [state EXCEPT !.currentPage = newPage]

\* Variant of setPageSize_update: the page that holds the first item of the
\* current page, instead of page 1
setPageSize_repositions(state, newPageSize) ==
    [state EXCEPT !.uiPageSize = newPageSize,
                  !.currentPage =
                      (((state.currentPage - 1) * state.uiPageSize)
                          \div newPageSize) + 1]

setPageSize_update(state, newPageSize) ==
    [state EXCEPT !.uiPageSize = newPageSize, !.currentPage = 1]

goToPage_update(state, pageNumber) ==
    IF Len(state.products) = 0 THEN state
    ELSE LET totalPages == Ceil(Len(state.products), state.uiPageSize)
         IN  IF pageNumber < 1 \/ pageNumber > totalPages THEN state
             ELSE [state EXCEPT !.currentPage = pageNumber]

(* Readers of the store.  recsManagerStore is the one store of the module: *)
(* whatever the instance id, a reader reads recsManagerStore.getState().   *)

getRecsManagerState == store

\* the page getCurrentPageProducts cuts out of the state it has read
getCurrentPageProducts_of(state) ==
    IF Len(state.products) = 0 THEN <<>>
    ELSE LET startIndex == (state.currentPage - 1) * state.uiPageSize
             endIndex == startIndex + state.uiPageSize
         IN  Slice(state.products, startIndex, endIndex)

\* the page getCurrentPageProducts returns for a registered instance
getCurrentPageProducts(instanceId) ==
    getCurrentPageProducts_of(getRecsManagerState)

canNavigateNext == getRecsManagerState.hasNextPage

canNavigatePrevious == getRecsManagerState.hasPreviousPage

getPageInfo(state) ==
    [currentPage |-> state.currentPage, totalPages |-> state.totalPages,
     totalProducts |-> state.totalProducts, pageSize |-> state.uiPageSize,
     hasNextPage |-> state.hasNextPage,
     hasPreviousPage |-> state.hasPreviousPage,
     isFirstPage |-> state.isFirstPage, isLastPage |-> state.isLastPage,
     pageStartIndex |-> state.pageStartIndex,
     pageEndIndex |-> state.pageEndIndex,
     productsOnCurrentPage |-> state.pageEndIndex - state.pageStartIndex]

----------------------------------------------------------------------------
(* UI functions over recsInputStore and recsOutputStore.  They carry the   *)
(* suffix _ui where the recommendations manager has an operation of the    *)
(* same name; pages are counted from 0 here.                               *)

initialRecsParams ==
    [name |-> "", fields |-> <<"*">>, collection |-> "", pageSize |-> 10,
     currentPage |-> 0, productID |-> <<>>, filters |-> <<>>,
     hasRequested |-> FALSE]

initialRecsResults ==
    [products |-> <<>>,
     pagination |-> [currentPage |-> 0, pageSize |-> 10, totalPages |-> 0,
                     totalRecords |-> 0],
     loading |-> FALSE, error |-> <<>>]

\* values callers write to currentPage and to pagination.totalPages
UiPageValues == -1 .. (MaxUiPages + 1)
UiTotalPages == 0 .. MaxUiPages

UiOp(name, arg) ==
    [NoOp EXCEPT !.op = name, !.arg = arg,
                 !.prePage = recsInputStore.currentPage,
                 !.preSize = recsInputStore.pageSize]

\* updateRecsInputStore(updater): newState is updater(current)
updateRecsInputStore(name, arg, newState) ==
    /\ recsInputStore' = newState
    /\ lastOp' = UiOp(name, arg)
    /\ UNCHANGED recsOutputStore
    /\ UNCHANGED <<recsVars, storeWatch, searchVars>>

\* updateRecsOutputStore(updater): newState is updater(current)
updateRecsOutputStore(name, arg, newState) ==
    /\ recsOutputStore' = newState
    /\ lastOp' = UiOp(name, arg)
    /\ UNCHANGED recsInputStore
    /\ UNCHANGED <<recsVars, storeWatch, searchVars>>

\* a caller's updater (current) => ({ ...current, currentPage: page })
updateRecsInputStore_currentPage(page) ==
    updateRecsInputStore("updateRecsInputStore", page,
                         [recsInputStore EXCEPT !.currentPage = page])

\* a caller's updater that writes pagination.totalPages
updateRecsOutputStore_totalPages(totalPages) ==
    updateRecsOutputStore("updateRecsOutputStore", totalPages,
        [recsOutputStore EXCEPT !.pagination.totalPages = totalPages])

\* Faulty variant of nextPage_updater: the page after the last is accepted
nextPage_updater_late(current, outputState) ==
    LET nextPageIndex == current.currentPage + 1
    IN  IF nextPageIndex > outputState.pagination.totalPages THEN current
        ELSE [current EXCEPT !.currentPage = nextPageIndex,
                             !.hasRequested = TRUE]

\* the updater nextPage passes to updateRecsInputStore
nextPage_updater(current, outputState) ==
    LET nextPageIndex == current.currentPage + 1
    IN  IF nextPageIndex >= outputState.pagination.totalPages THEN current
        ELSE [current EXCEPT !.currentPage = nextPageIndex,
                             !.hasRequested = TRUE]

\* the updater previousPage passes to updateRecsInputStore
previousPage_updater(current) ==
    IF current.currentPage <= 0 THEN current
    ELSE [current EXCEPT !.currentPage = current.currentPage - 1,
                         !.hasRequested = TRUE]

nextPage_ui ==
    LET outputState == recsOutputStore
    IN  updateRecsInputStore("ui.nextPage", 0,
                             nextPage_updater(recsInputStore, outputState))

previousPage_ui ==
    updateRecsInputStore("ui.previousPage", 0,
                         previousPage_updater(recsInputStore))

\* page sizes callers pass to setRecsPageSize
UiPageSizes == -1 .. MaxUiPages

\* request parameters a caller writes to the input store
UiParams ==
    {[name |-> "test-model", collection |-> "products",
      productID |-> <<"test-product">>, filters |-> <<>>],
     [name |-> "similar", collection |-> "Production",
      productID |-> <<>>, filters |-> <<"brand">>]}

\* a caller's updater (current) => ({ ...current, ...params })
updateRecsInputStore_params(params) ==
    updateRecsInputStore("updateRecsInputStore", 0,
        [recsInputStore EXCEPT !.name = params.name,
                               !.collection = params.collection,
                               !.productID = params.productID,
                               !.filters = params.filters])

\* Faulty variant of setRecsPageSize_updater: the page is kept
setRecsPageSize_updater_keepsPage(current, size) ==
    IF size <= 0 THEN current
    ELSE [current EXCEPT !.pageSize = size, !.hasRequested = TRUE]

\* the updater setRecsPageSize passes to updateRecsInputStore
setRecsPageSize_updater(current, size) ==
    IF size <= 0 THEN current
    ELSE [current EXCEPT !.pageSize = size, !.currentPage = 0,
                         !.hasRequested = TRUE]

\* Faulty variant of resetRecs_updater: the parameters are reset as well
resetRecs_updater_clears(current) ==
    [initialRecsParams EXCEPT !.hasRequested = TRUE]

\* the updater resetRecs passes to updateRecsInputStore
resetRecs_updater(current) ==
    [current EXCEPT !.currentPage = 0, !.hasRequested = TRUE]

\* the updater the UI fetchRecommendations passes to updateRecsInputStore
fetchRecommendations_updater(current) ==
    [current EXCEPT !.hasRequested = TRUE]

setRecsPageSize(size) ==
    updateRecsInputStore("ui.setRecsPageSize", size,
                         setRecsPageSize_updater(recsInputStore, size))

resetRecs ==
    updateRecsInputStore("ui.resetRecs", 0, resetRecs_updater(recsInputStore))

fetchRecommendations_ui ==
    updateRecsInputStore("ui.fetchRecommendations", 0,
                         fetchRecommendations_updater(recsInputStore))

----------------------------------------------------------------------------
(* Search manager and URL manager.  Of SearchParams the fields pagesize,   *)
(* sort_by, type and paginationType are left out: the URLs and the calls   *)
(* considered keep them at their defaults.  Of the output store only       *)
(* loading and error are kept.                                             *)

initialSearchParams ==
    [gbi_query |-> "", refinements |-> <<>>, page |-> 1,
     source |-> "search", collectionId |-> <<>>, hasSubmitted |-> <<>>,
     hasRefinementChanged |-> <<>>]

initialSearchResults == [loading |-> FALSE, error |-> <<>>]

Queries == {"", "shoes"}
RefinementValues == {"brands:A"}
SearchSources == {"search", "collection"}
\* what a URL of the history can hold: gbi-query, refinement and page
UrlEntries ==
    [gbi_query : Queries,
     refinements : {<<>>} \cup {<<r>> : r \in RefinementValues},
     page : 1 .. MaxSearchPage]

CleanUrl == [gbi_query |-> "", refinements |-> <<>>, page |-> 1]

\* the state before initSearchManager and initUrlManager
SearchInit ==
    /\ searchInputStore = initialSearchParams
    /\ searchOutputStore = initialSearchResults
    /\ searchManagerInitialized = FALSE
    /\ searchInFlight = <<>>
    /\ urlManager = [initialized |-> FALSE, source |-> "search",
                     collectionId |-> <<>>, isHandlingPopstate |-> FALSE,
                     timers |-> 0]
    /\ searchStats = [searchFxCalls |-> 0, pushStateCalls |-> 0,
                      userActions |-> 0]

\* the filter of the sample that calls searchFx
searchFilter(inputState) ==
    \/ inputState.hasSubmitted = <<TRUE>>
    \/ Len(inputState.refinements) > 0
    \/ inputState.page > 1

isCollectionSource(source) == source = "collection"

calculateHasSubmitted(params, collectionId) ==
    \/ params.gbi_query # ""
    \/ Len(params.refinements) > 0
    \/ params.page > 1
    \/ collectionId # <<>>

shouldUpdateBrowserUrl(params, isHandlingPopstate) ==
    IF isHandlingPopstate THEN FALSE
    ELSE LET hasSearchActivity ==
                 \/ params.gbi_query # ""
                 \/ Len(params.refinements) > 0
                 \/ params.page > 1
             isCollectionPage == isCollectionSource(params.source)
             shouldUpdateUrlForNonCollection ==
                 ~isCollectionPage /\ params.hasSubmitted = <<TRUE>>
         IN  \/ isCollectionPage
             \/ hasSearchActivity
             \/ shouldUpdateUrlForNonCollection

\* parseUrlToSearchParams: the fields of the URL, with the source given
parseUrlToSearchParams(url, source) ==
    [gbi_query |-> url.gbi_query, refinements |-> url.refinements,
     page |-> url.page, source |-> source]

\* the URL the watcher pushes for params
UrlOf(params) ==
    [gbi_query |-> params.gbi_query, refinements |-> params.refinements,
     page |-> params.page]

SearchOp(name) == [NoOp EXCEPT !.op = name]

\* The input store takes newState (an updater's result is a new object, so
\* every call of updateInputStore is an update) and its subscribers run:
\* the sample calls searchFx if the search manager is initialized and the
\* filter passes (the pending watcher then sets loading, if no other call
\* is pending), and the watcher of the URL manager, if installed, pushes a
\* history entry unless shouldUpdateBrowserUrl says no.  pending and output
\* are the calls in flight and the output store at the time of the update;
\* href is the URL and flag is isHandlingPopstate at that time; origin
\* names the event behind the update and actions is 1 for an update made on
\* a user's action.
InputStoreUpdated(newState, pending, output, href, flag, origin, actions) ==
    LET starts == searchManagerInitialized /\ searchFilter(newState)
        pushes == /\ urlManager.initialized
                  /\ shouldUpdateBrowserUrl(newState, flag)
    IN  /\ starts => searchStats.searchFxCalls < MaxSearchCalls
        /\ pushes => searchStats.pushStateCalls < MaxPushStates
        /\ searchInputStore' = newState
        /\ searchInFlight' =
               IF starts
               THEN Append(pending, [params |-> UrlOf(newState),
                                     origin |-> origin])
               ELSE pending
        /\ searchOutputStore' =
               IF starts /\ pending = <<>>
               THEN [output EXCEPT !.loading = TRUE, !.error = <<>>]
               ELSE output
        /\ location' = IF pushes THEN UrlOf(newState) ELSE href
        /\ searchStats' =
               [searchFxCalls |-> searchStats.searchFxCalls
                                    + (IF starts THEN 1 ELSE 0),
                pushStateCalls |-> searchStats.pushStateCalls
                                     + (IF pushes THEN 1 ELSE 0),
                userActions |-> searchStats.userActions + actions]

initSearchManager ==
    /\ ~searchManagerInitialized
    /\ searchManagerInitialized' = TRUE
    /\ lastOp' = SearchOp("initSearchManager")
    /\ UNCHANGED <<searchInputStore, searchOutputStore, searchInFlight,
                   urlManager, location, searchStats>>
    /\ UNCHANGED <<recsVars, uiVars, storeWatch>>

\* initUrlManager: the URL is parsed and, if it holds search parameters,
\* written to the input store (the sample runs, the URL watcher is not yet
\* installed); then searchInputStore.watch installs the URL watcher and
\* calls it at once with the current state.
initUrlManager(source, collectionId) ==
    LET initialParams == parseUrlToSearchParams(location, source)
        hasUrlSearchParams ==
            \/ initialParams.gbi_query # ""
            \/ Len(initialParams.refinements) > 0
            \/ initialParams.page > 1
        newState ==
            IF hasUrlSearchParams
            THEN [searchInputStore EXCEPT
                     !.gbi_query = initialParams.gbi_query,
                     !.refinements = initialParams.refinements,
                     !.page = initialParams.page,
                     !.source = source,
                     !.collectionId = collectionId,
                     !.hasSubmitted =
                         <<calculateHasSubmitted(initialParams, collectionId)>>]
            ELSE searchInputStore
        starts == /\ hasUrlSearchParams
                  /\ searchManagerInitialized
                  /\ searchFilter(newState)
        pushes == shouldUpdateBrowserUrl(newState, FALSE)
    IN  /\ ~urlManager.initialized
        /\ starts => searchStats.searchFxCalls < MaxSearchCalls
        /\ pushes => searchStats.pushStateCalls < MaxPushStates
        /\ urlManager' = [urlManager EXCEPT !.initialized = TRUE,
                                            !.source = source,
                                            !.collectionId = collectionId]
        /\ searchInputStore' = newState
        /\ searchInFlight' =
               IF starts
               THEN Append(searchInFlight, [params |-> UrlOf(newState),
                                            origin |-> "init"])
               ELSE searchInFlight
        /\ searchOutputStore' =
               IF starts /\ searchInFlight = <<>>
               THEN [searchOutputStore EXCEPT !.loading = TRUE,
                                              !.error = <<>>]
               ELSE searchOutputStore
        /\ location' = IF pushes THEN UrlOf(newState) ELSE location
        /\ searchStats' =
               [searchStats EXCEPT
                   !.searchFxCalls = @ + (IF starts THEN 1 ELSE 0),
                   !.pushStateCalls = @ + (IF pushes THEN 1 ELSE 0)]
        /\ lastOp' = SearchOp("initUrlManager")
        /\ UNCHANGED searchManagerInitialized
        /\ UNCHANGED <<recsVars, uiVars, storeWatch>>

\* a call of a UI function: updateInputStore with its updater's result
UserUpdate(name, newState) ==
    /\ searchStats.userActions < MaxUserActions
    /\ InputStoreUpdated(newState, searchInFlight, searchOutputStore,
                         location, urlManager.isHandlingPopstate, "user", 1)
    /\ lastOp' = SearchOp(name)
    /\ UNCHANGED <<searchManagerInitialized, urlManager>>
    /\ UNCHANGED <<recsVars, uiVars, storeWatch>>

handleSearchInput(newQuery) ==
    UserUpdate("handleSearchInput",
               [searchInputStore EXCEPT !.gbi_query = newQuery, !.page = 1,
                                        !.hasSubmitted = <<TRUE>>])

handleRefinementChange(refinement, isChecked) ==
    LET current == searchInputStore.refinements
        has == \E i \in 1 .. Len(current) : current[i] = refinement
        refinements ==
            IF isChecked
            THEN (IF has THEN current ELSE Append(current, refinement))
            ELSE SelectSeq(current, LAMBDA r : r # refinement)
    IN  UserUpdate("handleRefinementChange",
                   [searchInputStore EXCEPT
                       !.refinements = refinements, !.page = 1,
                       !.hasRefinementChanged = <<TRUE>>])

handlePreviousPage ==
    UserUpdate("handlePreviousPage",
               [searchInputStore EXCEPT
                   !.page = IF @ > 1 THEN @ - 1 ELSE 1])

\* The browser goes back or forward to the history entry url and fires
\* popstate: the listener sets isHandlingPopstate, writes the parsed URL to
\* the input store (collectionId is the one the URL watcher saw last, which
\* is the one of the input store) and arms the timer that clears the flag.
popstate(url) ==
    LET newParams == parseUrlToSearchParams(url, urlManager.source)
        collectionId == searchInputStore.collectionId
        updatedParams ==
            [searchInputStore EXCEPT
                !.gbi_query = newParams.gbi_query,
                !.refinements = newParams.refinements,
                !.page = newParams.page,
                !.source = newParams.source,
                !.hasSubmitted =
                    <<calculateHasSubmitted(newParams, collectionId)>>]
    IN  /\ urlManager.initialized
        /\ searchStats.userActions < MaxUserActions
        /\ urlManager' = [urlManager EXCEPT !.isHandlingPopstate = TRUE,
                                            !.timers = @ + 1]
        /\ InputStoreUpdated(updatedParams, searchInFlight,
                             searchOutputStore, url, TRUE, "popstate", 1)
        /\ lastOp' = SearchOp("popstate")
        /\ UNCHANGED searchManagerInitialized
        /\ UNCHANGED <<recsVars, uiVars, storeWatch>>

\* the callback of setTimeout(..., 0) of the popstate listener
popstateTimeout ==
    /\ urlManager.timers > 0
    /\ urlManager' = [urlManager EXCEPT !.isHandlingPopstate = FALSE,
                                        !.timers = @ - 1]
    /\ lastOp' = SearchOp("popstateTimeout")
    /\ UNCHANGED <<searchInputStore, searchOutputStore,
                   searchManagerInitialized, searchInFlight, location,
                   searchStats>>
    /\ UNCHANGED <<recsVars, uiVars, storeWatch>>

\* the updater of searchFx.done.watch
searchDone_update(current) == [current EXCEPT !.hasSubmitted = <<FALSE>>]

\* The call searchInFlight[i] resolves: the done watcher writes the output
\* store, then clears hasSubmitted in the input store.
searchDone(i) ==
    LET call == searchInFlight[i]
    IN  /\ InputStoreUpdated(searchDone_update(searchInputStore),
                             RemoveAt(searchInFlight, i),
                             [searchOutputStore EXCEPT !.loading = FALSE,
                                                       !.error = <<>>],
                             location, urlManager.isHandlingPopstate,
                             call.origin, 0)
        /\ lastOp' = SearchOp("searchDone")
        /\ UNCHANGED <<searchManagerInitialized, urlManager>>
        /\ UNCHANGED <<recsVars, uiVars, storeWatch>>

\* The call searchInFlight[i] is rejected: the fail watcher writes the
\* output store.
searchFail(i) ==
    /\ \E message \in ErrorMessages :
          searchOutputStore' = [searchOutputStore EXCEPT
                                   !.loading = FALSE, !.error = <<message>>]
    /\ searchInFlight' = RemoveAt(searchInFlight, i)
    /\ lastOp' = SearchOp("searchFail")
    /\ UNCHANGED <<searchInputStore, searchManagerInitialized, urlManager,
                   location, searchStats>>
    /\ UNCHANGED <<recsVars, uiVars, storeWatch>>

----------------------------------------------------------------------------
(* The store watcher of setupWatchers *)

\* watchers: the watchers recsManagerStore.watch has installed; queue: the
\* updateRecsManagerState events the watchers have launched and the store
\* has not yet handled; updates: the store updates those events have made
\* since the call; startIndex, endIndex: the fields the watcher adds to the
\* state; caller: the call of initRecsManager that has not yet returned.
initialStoreWatch ==
    [watchers |-> 0, queue |-> 0, updates |-> 0, startIndex |-> <<>>,
     endIndex |-> <<>>, caller |-> <<>>]

----------------------------------------------------------------------------
(* Operations *)

Init ==
    /\ store = initialState
    /\ recsManagerInstances = <<>>
    /\ recsCache = <<>>
    /\ inFlight = <<>>
    /\ fxWatchers = FALSE
    /\ globalWatchersInitialized = FALSE
    /\ now = 0
    /\ calls = 0
    /\ lastOp = NoOp
    /\ recsInputStore = initialRecsParams
    /\ recsOutputStore = initialRecsResults
    /\ storeWatch = initialStoreWatch
    /\ SearchInit
    /\ location = CleanUrl

\* The state at time 1 after the fetches that filled the cache, all their
\* instances destroyed since; calls counts the calls made from here on.
InitFilled ==
    /\ store = initialState
    /\ recsManagerInstances = <<>>
    /\ \E n \in {MAX_CACHE_SIZE - 1, MAX_CACHE_SIZE} :
          \E o1 \in FillerPositions, o2 \in FillerPositions :
             \E short \in {0, 2, MAX_CACHE_SIZE - 1} :
                recsCache = FilledCache(n, {o1, o2}, short)
    /\ inFlight = <<>>
    /\ fxWatchers = TRUE
    /\ globalWatchersInitialized = TRUE
    /\ now = 1
    /\ calls = 0
    /\ lastOp = NoOp
    /\ recsInputStore = initialRecsParams
    /\ recsOutputStore = initialRecsResults
    /\ storeWatch = initialStoreWatch
    /\ SearchInit
    /\ location = CleanUrl

\* Faulty variant of fetchRecsFx_call: the cache is not consulted
fetchRecsFx_call_uncached(config, current, cache, watchers) ==
    /\ calls' = calls + 1
    /\ store' = IF watchers /\ ~Pending THEN pendingWatch(current)
                ELSE current
    /\ recsCache' = cache
    /\ inFlight' = Append(inFlight, [config |-> config, cached |-> <<>>])

\* Faulty variant of fetchRecsFx_call: a call joins the call in flight for
\* its fingerprint, if there is one
fetchRecsFx_call_coalesced(config, current, cache, watchers) ==
    LET cacheKey == generateCacheKey(config)
        cached == getCachedData(cache, cacheKey, now)
        joins == \E i \in 1 .. Len(inFlight) :
                    generateCacheKey(inFlight[i].config) = cacheKey
    IN  /\ calls' = calls + 1
        /\ store' = IF watchers /\ ~Pending THEN pendingWatch(current)
                    ELSE current
        /\ recsCache' = CacheAfterGet(cache, cacheKey, now)
        /\ inFlight' =
              IF joins THEN inFlight
              ELSE Append(inFlight,
                     [config |-> config,
                      cached |-> IF cached = <<>> THEN <<>>
                                 ELSE <<cached[1].data>>])

\* A call fetchRecsFx(config) up to its first await: pending turns true if
\* no other call is in flight, then the handler consults the cache.  current
\* and cache are the store and the cache at the time of the call.
fetchRecsFx_call(config, current, cache, watchers) ==
    LET cacheKey == generateCacheKey(config)
        cached == getCachedData(cache, cacheKey, now)
    IN  /\ calls' = calls + 1
        /\ store' = IF watchers /\ ~Pending THEN pendingWatch(current)
                    ELSE current
        /\ recsCache' = CacheAfterGet(cache, cacheKey, now)
        /\ inFlight' = Append(inFlight,
               [config |-> config,
                cached |-> IF cached = <<>> THEN <<>> ELSE <<cached[1].data>>])

\* Faulty variant of Throws: the call that fails resets the store
Throws_resets(name, arg, error) ==
    /\ lastOp' = Op(name, arg, error)
    /\ store' = initialState
    /\ UNCHANGED restVars
    /\ UNCHANGED <<recsManagerInstances, recsCache, inFlight,
                   fxWatchers, globalWatchersInitialized, now, calls>>

Throws(name, arg, error) ==
    /\ lastOp' = Op(name, arg, error)
    /\ UNCHANGED restVars
    /\ UNCHANGED <<store, recsManagerInstances, recsCache, inFlight,
                   fxWatchers, globalWatchersInitialized, now, calls>>

\* Faulty variant of initRecsManager: an instance that exists keeps its
\* config and its fingerprint
initRecsManager_keepsConfig(config, instanceId) ==
    IF validateConfig(config) # ""
    THEN Throws("initRecsManager", 0, validateConfig(config))
    ELSE LET cacheKey == generateCacheKey(config)
             instance ==
                 IF instanceId \in DOMAIN recsManagerInstances
                 THEN recsManagerInstances[instanceId]
                 ELSE [config |-> config, initialized |-> FALSE,
                       cacheKey |-> cacheKey, watchersInitialized |-> FALSE]
             reset == [initialState EXCEPT !.uiPageSize = config.uiPageSize,
                                           !.cacheKey = <<cacheKey>>]
         IN  /\ recsManagerInstances' =
                    [i \in DOMAIN recsManagerInstances \cup {instanceId} |->
                        IF i = instanceId
                        THEN [instance EXCEPT !.initialized = TRUE,
                                              !.watchersInitialized = TRUE]
                        ELSE recsManagerInstances[i]]
             /\ fxWatchers' = (fxWatchers \/ ~Pending)
             /\ globalWatchersInitialized' = TRUE
             /\ fetchRecsFx_call(config, reset, recsCache, fxWatchers')
             /\ lastOp' = [StartOp("initRecsManager", config) EXCEPT
                               !.matched = TRUE]
             /\ UNCHANGED restVars
             /\ UNCHANGED now

initRecsManager(config, instanceId) ==
    IF validateConfig(config) # ""
    THEN Throws("initRecsManager", 0, validateConfig(config))
    ELSE LET cacheKey == generateCacheKey(config)
             instance ==
                 IF instanceId \in DOMAIN recsManagerInstances
                 THEN [recsManagerInstances[instanceId] EXCEPT
                          !.config = config, !.cacheKey = cacheKey]
                 ELSE [config |-> config, initialized |-> FALSE,
                       cacheKey |-> cacheKey, watchersInitialized |-> FALSE]
             reset == [initialState EXCEPT !.uiPageSize = config.uiPageSize,
                                           !.cacheKey = <<cacheKey>>]
         IN  /\ recsManagerInstances' =
                    [i \in DOMAIN recsManagerInstances \cup {instanceId} |->
                        IF i = instanceId
                        THEN [instance EXCEPT !.initialized = TRUE,
                                              !.watchersInitialized = TRUE]
                        ELSE recsManagerInstances[i]]
             /\ fxWatchers' = (fxWatchers \/ ~Pending)
             /\ globalWatchersInitialized' = TRUE
             /\ fetchRecsFx_call(config, reset, recsCache, fxWatchers')
             /\ lastOp' = [StartOp("initRecsManager", config) EXCEPT
                               !.matched = TRUE]
             /\ UNCHANGED restVars
             /\ UNCHANGED now

\* initRecsManager up to the end of setupWatchers: the instance is
\* registered, the store is reset (an update, which runs the watchers
\* installed before), the effect watchers are installed, and setupWatchers
\* installs the store watcher of an instance that has none.
\* recsManagerStore.watch calls the new watcher at once with the current
\* state, and the watcher launches one updateRecsManagerState event.  The
\* call goes on (watchersInitialized = true, fetchRecommendations, return)
\* only when the store has handled every event launched.
initRecsManager_setupWatchers(config, instanceId) ==
    /\ storeWatch.caller = <<>>
    /\ IF validateConfig(config) # ""
       THEN Throws("initRecsManager", 0, validateConfig(config))
       ELSE LET cacheKey == generateCacheKey(config)
                known == instanceId \in DOMAIN recsManagerInstances
                instance ==
                    IF known
                    THEN [recsManagerInstances[instanceId] EXCEPT
                             !.config = config, !.cacheKey = cacheKey]
                    ELSE [config |-> config, initialized |-> FALSE,
                          cacheKey |-> cacheKey,
                          watchersInitialized |-> FALSE]
                installs == IF instance.watchersInitialized THEN 0 ELSE 1
            IN  /\ recsManagerInstances' =
                       [i \in DOMAIN recsManagerInstances \cup {instanceId} |->
                           IF i = instanceId
                           THEN [instance EXCEPT !.initialized = TRUE]
                           ELSE recsManagerInstances[i]]
                /\ store' = [initialState EXCEPT
                                 !.uiPageSize = config.uiPageSize,
                                 !.cacheKey = <<cacheKey>>]
                /\ fxWatchers' = (fxWatchers \/ ~Pending)
                /\ globalWatchersInitialized' = TRUE
                /\ storeWatch' =
                       [storeWatch EXCEPT
                           !.watchers = @ + installs,
                           !.queue = @ + storeWatch.watchers + installs,
                           !.updates = 0,
                           !.caller = <<instanceId>>]
                /\ lastOp' = Op("initRecsManager", 0, "")
                /\ UNCHANGED <<uiVars, searchVars>>
                /\ UNCHANGED <<recsCache, inFlight, now, calls>>

\* The store handles one event a watcher launched.  The updater returns
\* { ...current, startIndex, endIndex }, a new object at every call, so the
\* store takes it as a new state and runs every watcher, and every watcher
\* launches one more event.
storeWatcher_update ==
    /\ storeWatch.queue > 0
    /\ storeWatch.updates < MaxWatcherUpdates
    /\ storeWatch' =
           [storeWatch EXCEPT
               !.queue = @ - 1 + storeWatch.watchers,
               !.updates = @ + 1,
               !.startIndex = <<(store.currentPage - 1) * store.uiPageSize>>,
               !.endIndex = <<store.currentPage * store.uiPageSize - 1>>]
    /\ lastOp' = Op("storeWatcher", storeWatch.updates + 1, "")
    /\ UNCHANGED <<uiVars, searchVars>>
    /\ UNCHANGED recsVars

fetchRecommendations(instanceId) ==
    IF validateInstance(recsManagerInstances, instanceId) # ""
    THEN Throws("fetchRecommendations", 0, "RecsInstanceError")
    ELSE LET config == recsManagerInstances[instanceId].config
         IN  /\ fetchRecsFx_call(config, store, recsCache, fxWatchers)
             /\ lastOp' = StartOp("fetchRecommendations", config)
             /\ UNCHANGED restVars
             /\ UNCHANGED <<recsManagerInstances, fxWatchers,
                            globalWatchersInitialized, now>>

\* Faulty variant of refreshRecommendations: the entry is not deleted
refreshRecommendations_keeps(instanceId) ==
    IF validateInstance(recsManagerInstances, instanceId) # ""
    THEN Throws("refreshRecommendations", 0, "RecsInstanceError")
    ELSE LET config == recsManagerInstances[instanceId].config
         IN  /\ fetchRecsFx_call(config, store, recsCache, fxWatchers)
             /\ lastOp' = StartOp("refreshRecommendations", config)
             /\ UNCHANGED restVars
             /\ UNCHANGED <<recsManagerInstances, fxWatchers,
                            globalWatchersInitialized, now>>

refreshRecommendations(instanceId) ==
    IF validateInstance(recsManagerInstances, instanceId) # ""
    THEN Throws("refreshRecommendations", 0, "RecsInstanceError")
    ELSE LET config == recsManagerInstances[instanceId].config
             cacheKey == generateCacheKey(config)
             i == CacheIndex(recsCache, cacheKey)
             deleted == IF i = 0 THEN recsCache ELSE RemoveAt(recsCache, i)
         IN  /\ fetchRecsFx_call(config, store, deleted, fxWatchers)
             /\ lastOp' = StartOp("refreshRecommendations", config)
             /\ UNCHANGED restVars
             /\ UNCHANGED <<recsManagerInstances, fxWatchers,
                            globalWatchersInitialized, now>>

\* The call inFlight[i] resolves: from the cache entry found at the call, or
\* from the collaborator, whose response is then cached.  The done watcher
\* runs, then the caller's await returns.
fetchDone(i) ==
    LET call == inFlight[i]
        cacheKey == generateCacheKey(call.config)
    IN  \E n \in ResultSizes(call.config) :
           LET result == IF call.cached # <<>> THEN call.cached[1]
                         ELSE ApiResponse(call.config, n)
           IN  /\ call.cached # <<>> => n = Len(call.cached[1].products)
               /\ recsCache' = IF call.cached # <<>> THEN recsCache
                               ELSE setCachedData(recsCache, cacheKey, result,
                                                  call.config, now)
               /\ store' = IF fxWatchers
                           THEN doneWatch(store, result, call.config, now)
                           ELSE store
               /\ inFlight' = RemoveAt(inFlight, i)
               /\ lastOp' = FetchOp("fetchDone", Len(result.products), "",
                                    call.config)
               /\ UNCHANGED restVars
               /\ UNCHANGED <<recsManagerInstances, fxWatchers,
                              globalWatchersInitialized, now, calls>>

\* Faulty variant of fetchFail: the rejected call is made again
fetchFail_retries(i) ==
    LET call == inFlight[i]
    IN  /\ call.cached = <<>>
        /\ \E message \in ErrorMessages :
              store' = fetchRecommendations_catch(
                          IF fxWatchers
                          THEN failWatch(store, message, call.config)
                          ELSE store,
                          message)
        /\ inFlight' = Append(RemoveAt(inFlight, i), call)
        /\ lastOp' = FetchOp("fetchFail", 0, "RecsFetchError", call.config)
        /\ UNCHANGED restVars
        /\ UNCHANGED <<recsManagerInstances, recsCache, fxWatchers,
                       globalWatchersInitialized, now, calls>>

\* The collaborator rejects the call inFlight[i]: the fail watcher runs, then
\* the catch block of the fetchRecommendations that awaited it.
fetchFail(i) ==
    LET call == inFlight[i]
    IN  /\ call.cached = <<>>
        /\ \E message \in ErrorMessages :
              store' = fetchRecommendations_catch(
                          IF fxWatchers
                          THEN failWatch(store, message, call.config)
                          ELSE store,
                          message)
        /\ inFlight' = RemoveAt(inFlight, i)
        /\ lastOp' = FetchOp("fetchFail", 0, "RecsFetchError", call.config)
        /\ UNCHANGED restVars
        /\ UNCHANGED <<recsManagerInstances, recsCache, fxWatchers,
                       globalWatchersInitialized, now, calls>>

\* Faulty variant of Navigate: the patch also ends the loading state
Navigate_settles(name, arg, newState) ==
    /\ store' = [newState EXCEPT !.loading = FALSE]
    /\ lastOp' = Op(name, arg, "")
    /\ UNCHANGED restVars
    /\ UNCHANGED <<recsManagerInstances, recsCache, inFlight, fxWatchers,
                   globalWatchersInitialized, now, calls>>

Navigate(name, arg, newState) ==
    /\ store' = newState
    /\ lastOp' = Op(name, arg, "")
    /\ UNCHANGED restVars
    /\ UNCHANGED <<recsManagerInstances, recsCache, inFlight, fxWatchers,
                   globalWatchersInitialized, now, calls>>

nextPage(instanceId) ==
    IF validateInstance(recsManagerInstances, instanceId) # ""
    THEN Throws("nextPage", 0, "RecsInstanceError")
    ELSE Navigate("nextPage", 0, nextPage_update(store))

previousPage(instanceId) ==
    IF validateInstance(recsManagerInstances, instanceId) # ""
    THEN Throws("previousPage", 0, "RecsInstanceError")
    ELSE Navigate("previousPage", 0, previousPage_update(store))

\* Faulty variant of setPageSize: any page size is accepted
setPageSize_unchecked(newPageSize, instanceId) ==
    IF validateInstance(recsManagerInstances, instanceId) # ""
    THEN Throws("setPageSize", newPageSize, "RecsInstanceError")
    ELSE Navigate("setPageSize", newPageSize,
                  setPageSize_update(store, newPageSize))

setPageSize(newPageSize, instanceId) ==
    IF validateInstance(recsManagerInstances, instanceId) # ""
    THEN Throws("setPageSize", newPageSize, "RecsInstanceError")
    ELSE IF newPageSize <= 0
    THEN Throws("setPageSize", newPageSize, "RecsConfigError")
    ELSE Navigate("setPageSize", newPageSize,
                  setPageSize_update(store, newPageSize))

goToPage(pageNumber, instanceId) ==
    IF validateInstance(recsManagerInstances, instanceId) # ""
    THEN Throws("goToPage", pageNumber, "RecsInstanceError")
    ELSE Navigate("goToPage", pageNumber,
                  goToPage_update(store, pageNumber))

\* Date.now() advances between two calls
Tick ==
    /\ now < MaxTime
    /\ now' = now + 1
    /\ lastOp' = Op("tick", 0, "")
    /\ UNCHANGED restVars
    /\ UNCHANGED <<store, recsManagerInstances, recsCache, inFlight,
                   fxWatchers, globalWatchersInitialized, calls>>

\* Faulty variant of destroyRecsManager: the store is never reset
destroyRecsManager_keepsStore(instanceId) ==
    IF instanceId \notin DOMAIN recsManagerInstances
    THEN Throws("destroyRecsManager", 0, "")
    ELSE LET remaining == DOMAIN recsManagerInstances \ {instanceId}
         IN  /\ recsManagerInstances' =
                    [i \in remaining |-> recsManagerInstances[i]]
             /\ lastOp' = Op("destroyRecsManager", 1, "")
             /\ UNCHANGED restVars
             /\ UNCHANGED <<store, recsCache, inFlight, fxWatchers,
                            globalWatchersInitialized, now, calls>>

\* lastOp.arg is the value returned: 1 for true, 0 for false
destroyRecsManager(instanceId) ==
    IF instanceId \notin DOMAIN recsManagerInstances
    THEN Throws("destroyRecsManager", 0, "")
    ELSE LET remaining == DOMAIN recsManagerInstances \ {instanceId}
         IN  /\ recsManagerInstances' =
                    [i \in remaining |-> recsManagerInstances[i]]
             /\ store' = IF remaining = {} THEN initialState ELSE store
             /\ lastOp' = Op("destroyRecsManager", 1, "")
             /\ UNCHANGED restVars
             /\ UNCHANGED <<recsCache, inFlight, fxWatchers,
                            globalWatchersInitialized, now, calls>>

\* A call getCurrentPageProducts(instanceId): the instance is validated,
\* then the page is read; lastOp.arg is the length of the page returned.
getCurrentPageProducts_call(instanceId) ==
    IF validateInstance(recsManagerInstances, instanceId) # ""
    THEN Throws("getCurrentPageProducts", 0, "RecsInstanceError")
    ELSE /\ lastOp' = Op("getCurrentPageProducts",
                         Len(getCurrentPageProducts(instanceId)), "")
         /\ UNCHANGED restVars
         /\ UNCHANGED <<store, recsManagerInstances, recsCache, inFlight,
                        fxWatchers, globalWatchersInitialized, now, calls>>

\* jumpToFirstPage() is goToPage(1) and jumpToLastPage() is
\* goToPage(state.totalPages), both without an instance id: goToPage
\* validates the instance "default".
jumpToFirstPage ==
    IF validateInstance(recsManagerInstances, "default") # ""
    THEN Throws("jumpToFirstPage", 1, "RecsInstanceError")
    ELSE Navigate("jumpToFirstPage", 1, goToPage_update(store, 1))

jumpToLastPage ==
    LET state == getRecsManagerState
    IN  IF validateInstance(recsManagerInstances, "default") # ""
        THEN Throws("jumpToLastPage", state.totalPages, "RecsInstanceError")
        ELSE Navigate("jumpToLastPage", state.totalPages,
                      goToPage_update(store, state.totalPages))

\* A call calculatePaginationInfo(currentPage, uiPageSize, totalProducts):
\* nothing is written; lastOp keeps the arguments (prePage, preSize, arg).
calculatePaginationInfo_call(currentPage, uiPageSize, totalProducts) ==
    /\ lastOp' = [Op("calculatePaginationInfo", totalProducts, "") EXCEPT
                     !.prePage = currentPage, !.preSize = uiPageSize]
    /\ UNCHANGED restVars
    /\ UNCHANGED <<store, recsManagerInstances, recsCache, inFlight,
                   fxWatchers, globalWatchersInitialized, now, calls>>


----------------------------------------------------------------------------
(* Specifications.  SpecFetch: the life cycle of several instances and of  *)
(* their fetches, with overlapping calls and any config for any instance,  *)
(* without navigation.  SpecNav: navigation over the fetched products of   *)
(* instance "a", configured with CfgP1, and instance "b", configured with  *)
(* CfgP2; a refresh brings a new response.  Time does not pass in either   *)
(* of them: a cache entry is removed by a refresh.                         *)

StartsFetch ==
    \/ \E config \in Configs, id \in InstanceIds : initRecsManager(config, id)
    \/ \E id \in InstanceIds : fetchRecommendations(id)
    \/ \E id \in InstanceIds : refreshRecommendations(id)

Settles ==
    \/ \E i \in 1 .. Len(inFlight) : fetchDone(i)
    \/ \E i \in 1 .. Len(inFlight) : fetchFail(i)

Navigates ==
    \/ \E id \in InstanceIds : nextPage(id)
    \/ \E id \in InstanceIds : previousPage(id)
    \/ \E n \in PageSizes, id \in InstanceIds : setPageSize(n, id)
    \/ \E k \in PageNumbers, id \in InstanceIds : goToPage(k, id)

NextFetch ==
    \/ calls < MaxCalls /\ StartsFetch
    \/ Settles
    \/ \E id \in InstanceIds : destroyRecsManager(id)

SpecFetch == Init /\ [][NextFetch]_vars

NavConfigs(id) == IF id = "a" THEN {CfgP1, CfgBad} ELSE {CfgP2}

NextNav ==
    \/ /\ calls < MaxNavCalls
       /\ \E id \in InstanceIds :
             \E config \in NavConfigs(id) : initRecsManager(config, id)
    \/ /\ calls < MaxNavCalls
       /\ \E id \in InstanceIds : refreshRecommendations(id)
    \/ Settles
    \/ Navigates

SpecNav == Init /\ [][NextNav]_vars

\* SpecCache: fetches of two instances over configs that share a
\* fingerprint or not, with time passing, so that entries expire.
NextCache ==
    \/ /\ calls < MaxCacheCalls
       /\ \E config \in CacheConfigs, id \in InstanceIds :
             initRecsManager(config, id)
    \/ /\ calls < MaxCacheCalls
       /\ \E id \in InstanceIds : fetchRecommendations(id)
    \/ /\ calls < MaxCacheCalls
       /\ \E id \in InstanceIds : refreshRecommendations(id)
    \/ Settles
    \/ Tick

SpecCache == Init /\ [][NextCache]_vars

\* SpecEvict: fetches of instance "a" into a cache that holds
\* MAX_CACHE_SIZE - 1 or MAX_CACHE_SIZE entries, with time passing.
NextEvict ==
    \/ /\ calls < MaxEvictCalls
       /\ \E config \in EvictConfigs : initRecsManager(config, "a")
    \/ Settles
    \/ Tick

SpecEvict == InitFilled /\ [][NextEvict]_vars

\* SpecConfig: initRecsManager over valid and invalid configs; a call that
\* validateConfig rejects starts no fetch.
NextConfig ==
    \/ \E config \in ConfigInputs, id \in InstanceIds :
          /\ calls < MaxConfigCalls \/ validateConfig(config) # ""
          /\ initRecsManager(config, id)
    \/ Settles

SpecConfig == Init /\ [][NextConfig]_vars

\* SpecLife: instances are created, used and destroyed; every operation is
\* called with ids that are registered and with ids that are not.
LifeConfigs == {CfgP1, CfgP2}

NextLife ==
    \/ /\ calls < MaxLifeCalls
       /\ \E config \in LifeConfigs, id \in InstanceIds :
             initRecsManager(config, id)
    \/ \E id \in InstanceIds :
          /\ calls < MaxLifeCalls \/ id \notin DOMAIN recsManagerInstances
          /\ fetchRecommendations(id)
    \/ \E id \in InstanceIds :
          /\ calls < MaxLifeCalls \/ id \notin DOMAIN recsManagerInstances
          /\ refreshRecommendations(id)
    \/ Settles
    \/ Navigates
    \/ \E id \in InstanceIds : getCurrentPageProducts_call(id)
    \/ \E id \in InstanceIds : destroyRecsManager(id)

SpecLife == Init /\ [][NextLife]_vars

\* SpecJump: navigation of the instance "default", the one jumpToFirstPage
\* and jumpToLastPage act on, and of an instance "a", over the products
\* of a fetch.
JumpIds == {"default", "a"}

NextJump ==
    \/ /\ calls < MaxJumpCalls
       /\ \E config \in LifeConfigs, id \in JumpIds :
             initRecsManager(config, id)
    \/ Settles
    \/ \E id \in JumpIds : nextPage(id)
    \/ \E id \in JumpIds : previousPage(id)
    \/ \E n \in PageSizes, id \in JumpIds : setPageSize(n, id)
    \/ \E k \in PageNumbers, id \in JumpIds : goToPage(k, id)
    \/ jumpToFirstPage
    \/ jumpToLastPage

SpecJump == Init /\ [][NextJump]_vars

\* SpecPagination: calculatePaginationInfo over the arguments of PageInputs,
\* SizeInputs and ItemInputs.
NextPagination ==
    \E currentPage \in PageInputs, uiPageSize \in SizeInputs,
       totalProducts \in ItemInputs :
        calculatePaginationInfo_call(currentPage, uiPageSize, totalProducts)

SpecPagination == Init /\ [][NextPagination]_vars

\* SpecWatch: initRecsManager with the store watcher of setupWatchers, and
\* the navigation calls a caller can make while no call is running.
NextWatch ==
    \/ \E config \in ConfigInputs, id \in InstanceIds :
          initRecsManager_setupWatchers(config, id)
    \/ storeWatcher_update
    \/ storeWatch.caller = <<>> /\ Navigates

SpecWatch == Init /\ [][NextWatch]_vars

\* SpecSearch: the search manager and the URL manager under the UI
\* functions and back/forward navigation.
NextSearch ==
    \/ initSearchManager
    \/ \E source \in SearchSources :
          initUrlManager(source, IF source = "collection" THEN <<"c1">>
                                 ELSE <<>>)
    \/ \E newQuery \in Queries : handleSearchInput(newQuery)
    \/ \E r \in RefinementValues, isChecked \in BOOLEAN :
          handleRefinementChange(r, isChecked)
    \/ handlePreviousPage
    \/ \E url \in UrlEntries : popstate(url)
    \/ popstateTimeout
    \/ \E i \in 1 .. Len(searchInFlight) : searchDone(i)
    \/ \E i \in 1 .. Len(searchInFlight) : searchFail(i)

\* the page is opened at any URL
InitSearch ==
    /\ store = initialState
    /\ recsManagerInstances = <<>>
    /\ recsCache = <<>>
    /\ inFlight = <<>>
    /\ fxWatchers = FALSE
    /\ globalWatchersInitialized = FALSE
    /\ now = 0
    /\ calls = 0
    /\ lastOp = NoOp
    /\ recsInputStore = initialRecsParams
    /\ recsOutputStore = initialRecsResults
    /\ storeWatch = initialStoreWatch
    /\ SearchInit
    /\ location \in UrlEntries

SpecSearch == InitSearch /\ [][NextSearch]_vars

\* SpecUi: the UI functions, with callers that write currentPage of the
\* input store and pagination.totalPages of the output store.
NextUi ==
    \/ \E page \in UiPageValues : updateRecsInputStore_currentPage(page)
    \/ \E totalPages \in UiTotalPages :
          updateRecsOutputStore_totalPages(totalPages)
    \/ nextPage_ui
    \/ previousPage_ui
    \/ \E params \in UiParams : updateRecsInputStore_params(params)
    \/ \E size \in UiPageSizes : setRecsPageSize(size)
    \/ resetRecs
    \/ fetchRecommendations_ui

SpecUi == Init /\ [][NextUi]_vars





----------------------------------------------------------------------------
(* Properties *)

TotalPagesOf(state) == Ceil(Len(state.products), state.uiPageSize)
InRange(state) ==
    /\ Len(state.products) > 0
    /\ 1 <= state.currentPage
    /\ state.currentPage <= TotalPagesOf(state)
FingerprintOf(call) == <<generateCacheKey(call.config)>>
Registered(ids) == ids \subseteq DOMAIN recsManagerInstances

\* C1: whenever products are loaded, the derived pagination fields of the
\* store equal calculatePaginationInfo(currentPage, uiPageSize,
\* products.length).
C1_DerivedFieldsConsistent ==
    Len(store.products) > 0 =>
        PaginationFields(store) =
            calculatePaginationInfo(store.currentPage, store.uiPageSize,
                                    Len(store.products))

\* C2: with instances "a" and "b" registered for two configs and no fetch
\* in flight, a navigation call on "a" (nextPage, previousPage, goToPage,
\* setPageSize) leaves the currentPage and the page size read for "b"
\* unchanged.
C2_NavigationLeavesOtherInstance ==
    [][(/\ Registered({"a", "b"})
        /\ recsManagerInstances["a"].config # recsManagerInstances["b"].config
        /\ inFlight = <<>>
        /\ \/ nextPage("a")
           \/ previousPage("a")
           \/ \E k \in PageNumbers : goToPage(k, "a")
           \/ \E n \in PageSizes : setPageSize(n, "a"))
       => /\ getPageInfo(store').currentPage = getPageInfo(store).currentPage
          /\ getPageInfo(store').pageSize = getPageInfo(store).pageSize]_vars

\* C3: every item getCurrentPageProducts(id) returns for a registered
\* instance id comes from a response fetched for the current config of id.
C3_PageFromOwnConfig ==
    \A id \in DOMAIN recsManagerInstances :
        \A i \in 1 .. Len(getCurrentPageProducts(id)) :
            getCurrentPageProducts(id)[i].src = recsManagerInstances[id].config

\* C4: a fetch that completes while the cacheKey of the store differs from
\* the fingerprint of its config leaves the store unchanged, and the
\* products of the store always come from a fetch made for the fingerprint
\* the store holds.
ProductsFromCurrentKey ==
    \A i \in 1 .. Len(store.products) :
        store.cacheKey = <<generateCacheKey(store.products[i].src)>>
StaleDoneIgnored ==
    \A i \in 1 .. Len(inFlight) :
        (fetchDone(i) /\ store.cacheKey # FingerprintOf(inFlight[i]))
            => store' = store
C4_StaleResultNeverApplied ==
    []ProductsFromCurrentKey /\ [][StaleDoneIgnored]_vars

\* C4 witness: after a re-initialisation the newer fetch has filled the
\* store, then the older fetch completed with a different fingerprint.
C4_Witness ==
    /\ lastOp.op = "fetchDone"
    /\ ~lastOp.matched
    /\ lastOp.arg > 0
    /\ Len(store.products) > 0
    /\ Cardinality(DOMAIN recsManagerInstances) = 1

\* C5: a fetch that fails while the cacheKey of the store differs from the
\* fingerprint of its config leaves loading and error unchanged.
C5_StaleFailureIgnored ==
    [][\A i \in 1 .. Len(inFlight) :
          (fetchFail(i) /\ store.cacheKey # FingerprintOf(inFlight[i]))
              => /\ store'.loading = store.loading
                 /\ store'.error = store.error]_vars

\* C6: whenever a fetch for the cacheKey of the store is in flight, loading
\* is true.
C6_LoadingWhileInFlight ==
    (\E i \in 1 .. Len(inFlight) : store.cacheKey = FingerprintOf(inFlight[i]))
        => store.loading

\* C7: a fetch started for a fingerprint other than the cacheKey of the
\* store leaves loading and error unchanged.
C7_PendingOnlyForOwnKey ==
    [][\A id \in InstanceIds :
          (/\ fetchRecommendations(id) \/ refreshRecommendations(id)
           /\ lastOp'.threw = ""
           /\ store.cacheKey # <<recsManagerInstances[id].cacheKey>>)
              => /\ store'.loading = store.loading
                 /\ store'.error = store.error]_vars

RECURSIVE NextPageTimes(_, _)
NextPageTimes(state, k) ==
    IF k = 0 THEN state ELSE NextPageTimes(nextPage_update(state), k - 1)

C10_GoToPageRoundTrip ==
    [][\A k \in PageNumbers, id \in InstanceIds :
          (goToPage(k, id) /\ lastOp'.threw = "" /\ Len(store.products) > 0)
              => IF k \in 1 .. getPageInfo(store).totalPages
                 THEN getPageInfo(store').currentPage = k
                 ELSE getPageInfo(store').currentPage =
                          getPageInfo(store).currentPage]_vars

----------------------------------------------------------------------------
(* Properties of the cache *)

\* the step is a call of initRecsManager or fetchRecommendations that starts
\* a fetch for config
FetchStarted(config) ==
    \E id \in InstanceIds :
        \/ validateConfig(config) = "" /\ initRecsManager(config, id)
        \/ /\ validateInstance(recsManagerInstances, id) = ""
           /\ recsManagerInstances[id].config = config
           /\ fetchRecommendations(id)
\* the step is a call of refreshRecommendations that starts a fetch for config
RefreshStarted(config) ==
    \E id \in InstanceIds :
        /\ validateInstance(recsManagerInstances, id) = ""
        /\ recsManagerInstances[id].config = config
        /\ refreshRecommendations(id)
\* the call of fetchRecsFx started last
LastCall(seq) == seq[Len(seq)]

\* C11: a fetch that finds an entry with now >= expiresAt under its
\* fingerprint is not answered from the cache and the lookup deletes the
\* entry; a fetch is answered from the cache only with the data of an entry
\* with now < expiresAt.
C11_ExpiredEntryAbsent ==
    [][\A config \in CacheConfigs :
          FetchStarted(config) =>
              LET key == generateCacheKey(config)
                  i == CacheIndex(recsCache, key)
                  call == LastCall(inFlight')
              IN  /\ (i # 0 /\ now >= recsCache[i].expiresAt)
                        => /\ call.cached = <<>>
                           /\ CacheIndex(recsCache', key) = 0
                  /\ call.cached # <<>>
                        => /\ i # 0
                           /\ now < recsCache[i].expiresAt
                           /\ call.cached[1] = recsCache[i].data]_vars

\* C11 witness: a fetch found an expired entry, goes to the collaborator and
\* the entry is gone.
C11_Witness ==
    /\ lastOp.op = "fetchRecommendations"
    /\ lastOp.entry = "expired"
    /\ LastCall(inFlight).cached = <<>>
    /\ CacheIndex(recsCache, generateCacheKey(LastCall(inFlight).config)) = 0

\* the TTL the config asks for: its cacheTTL whenever one is given, 0
\* included, and the default only when none is given
GivenTtl(config) ==
    IF config.cacheTTL = <<>> THEN DEFAULT_CACHE_TTL ELSE config.cacheTTL[1]

\* C12: the cache entry a fetch writes when the collaborator has answered
\* has timestamp = now and expiresAt = now + ttl, ttl being the cacheTTL of
\* the config whenever one is given (0 included) and 5 minutes otherwise.
C12_EntryStamped ==
    [][\A i \in 1 .. Len(inFlight) :
          (fetchDone(i) /\ inFlight[i].cached = <<>>)
              => LET config == inFlight[i].config
                     j == CacheIndex(recsCache', generateCacheKey(config))
                 IN  j # 0 =>
                        /\ recsCache'[j].timestamp = now
                        /\ recsCache'[j].expiresAt = now + GivenTtl(config)
      ]_vars

CacheKeys(cache) == {cache[j].key : j \in 1 .. Len(cache)}
\* positions of the entries of cache whose key is not in after
RemovedFrom(cache, after) ==
    {j \in 1 .. Len(cache) : cache[j].key \notin CacheKeys(after)}
\* the step is a fetch that writes its response under a new key into a
\* cache that is full
WriteOverBound(i) ==
    /\ fetchDone(i)
    /\ inFlight[i].cached = <<>>
    /\ generateCacheKey(inFlight[i].config) \notin CacheKeys(recsCache)
    /\ Len(recsCache) = MAX_CACHE_SIZE

\* C13 as claimed: the cache never holds more than 20 entries, and a write
\* that pushes it over the bound removes exactly the entries in excess,
\* none of them newer than an entry that stays, and keeps the entry just
\* written.
C13_EvictsExactlyOldest ==
    /\ [](Len(recsCache) <= MAX_CACHE_SIZE)
    /\ [][\A i \in 1 .. Len(inFlight) :
            WriteOverBound(i) =>
               LET removed == RemovedFrom(recsCache, recsCache')
               IN  /\ generateCacheKey(inFlight[i].config)
                         \in CacheKeys(recsCache')
                   /\ Cardinality(removed) = 1
                   /\ \A j \in removed :
                         \A k \in (1 .. Len(recsCache)) \ removed :
                            recsCache[j].timestamp <= recsCache[k].timestamp
        ]_vars

\* C13 amended: the cache never holds more than 20 entries; a write that
\* pushes it over the bound keeps the entry just written, removes the
\* entry with the smallest timestamp and, with it, every expired entry
\* whatever its timestamp; an entry that has not expired is removed only if
\* none is older.
C13_EvictsOldestAndExpired ==
    /\ [](Len(recsCache) <= MAX_CACHE_SIZE)
    /\ [][\A i \in 1 .. Len(inFlight) :
            WriteOverBound(i) =>
               LET removed == RemovedFrom(recsCache, recsCache')
                   expired == {j \in 1 .. Len(recsCache) :
                                  now >= recsCache[j].expiresAt}
               IN  /\ generateCacheKey(inFlight[i].config)
                         \in CacheKeys(recsCache')
                   /\ expired \subseteq removed
                   /\ \E j \in removed :
                         \A k \in 1 .. Len(recsCache) :
                            recsCache[j].timestamp <= recsCache[k].timestamp
                   /\ Cardinality(removed \ expired) <= 1
                   /\ \A j \in removed \ expired :
                         \A k \in 1 .. Len(recsCache) :
                            recsCache[j].timestamp <= recsCache[k].timestamp
        ]_vars

\* C13 witness: a write into the full cache, before any entry has expired:
\* 20 entries, the response just written among them, an older entry gone.
C13_Witness ==
    /\ lastOp.op = "fetchDone"
    /\ now = 1
    /\ Len(recsCache) = MAX_CACHE_SIZE
    /\ generateCacheKey(CfgP1) \in CacheKeys(recsCache)
    /\ \E i \in 1 .. MAX_CACHE_SIZE :
          generateCacheKey(FillerConfig(i, <<>>)) \notin CacheKeys(recsCache)

\* the cache holds, under the fingerprint of config, an entry that has not
\* expired: a fetch for that fingerprint has succeeded and now < expiresAt
LiveEntry(config) ==
    EntryStatus(recsCache, generateCacheKey(config), now) = "live"

\* C14 as claimed: while the entry written by a successful fetch for a
\* fingerprint has not expired, every later fetch with that fingerprint,
\* started by initRecsManager, fetchRecommendations or
\* refreshRecommendations on any instance, is answered from the cache and
\* does not invoke the collaborator.
C14_EveryLaterFetchCached ==
    [][\A config \in CacheConfigs :
          (LiveEntry(config) /\ (FetchStarted(config) \/ RefreshStarted(config)))
              => LastCall(inFlight').cached # <<>>]_vars

\* C14 amended: while that entry is still in the cache and has not expired,
\* every fetch with its fingerprint started by initRecsManager or
\* fetchRecommendations, on the instance that wrote it or on any other, is
\* answered with the data of the entry and does not invoke the
\* collaborator; refreshRecommendations removes the entry and invokes the
\* collaborator.
C14_LiveEntryAnswers ==
    [][\A config \in CacheConfigs :
          LET i == CacheIndex(recsCache, generateCacheKey(config))
          IN  /\ (LiveEntry(config) /\ FetchStarted(config))
                    => /\ LastCall(inFlight').cached = <<recsCache[i].data>>
                       /\ recsCache' = recsCache
              /\ (LiveEntry(config) /\ RefreshStarted(config))
                    => /\ LastCall(inFlight').cached = <<>>
                       /\ generateCacheKey(config) \notin CacheKeys(recsCache')
      ]_vars

\* C14 witness: instance "b" starts a fetch that is answered from the entry
\* written by the fetch of instance "a".
C14_Witness ==
    /\ lastOp.op = "initRecsManager"
    /\ lastOp.entry = "live"
    /\ DOMAIN recsManagerInstances = {"a", "b"}
    /\ LastCall(inFlight).config = recsManagerInstances["b"].config
    /\ LastCall(inFlight).cached # <<>>
    /\ \A i \in 1 .. Len(LastCall(inFlight).cached[1].products) :
          LastCall(inFlight).cached[1].products[i].src =
              recsManagerInstances["a"].config
    /\ recsManagerInstances["a"].config = recsManagerInstances["b"].config

\* C15: a start of a fetch writes no cache entry, and a fetch started while
\* a fetch for the same fingerprint is in flight, nothing being cached for
\* it, is a call of its own that goes to the collaborator: the number of
\* calls in flight grows by one.
C15_NotCoalesced ==
    [][\A config \in Configs :
          (FetchStarted(config) \/ RefreshStarted(config))
              => /\ CacheKeys(recsCache') \subseteq CacheKeys(recsCache)
                 /\ (/\ ~LiveEntry(config)
                     /\ \E i \in 1 .. Len(inFlight) :
                           /\ FingerprintOf(inFlight[i])
                                 = <<generateCacheKey(config)>>
                           /\ inFlight[i].cached = <<>>)
                       => /\ Len(inFlight') = Len(inFlight) + 1
                          /\ LastCall(inFlight').cached = <<>>
                          /\ LastCall(inFlight').config = config]_vars

\* C15 witness: two fetches for one fingerprint are in flight, both on
\* their way to the collaborator, and the cache holds nothing for it.
C15_Witness ==
    /\ lastOp.op = "fetchRecommendations"
    /\ lastOp.entry = "absent"
    /\ \E i \in 1 .. Len(inFlight), j \in 1 .. Len(inFlight) :
          /\ i < j
          /\ FingerprintOf(inFlight[i]) = FingerprintOf(inFlight[j])
          /\ inFlight[i].cached = <<>>
          /\ inFlight[j].cached = <<>>
          /\ generateCacheKey(inFlight[i].config) \notin CacheKeys(recsCache)

\* C16: refreshRecommendations(id) leaves no entry under the fingerprint of
\* id, keeps every entry stored under another fingerprint as it is, and
\* the fetch it starts goes to the collaborator, whether or not the cache
\* held an entry that had not expired.
C16_RefreshForcesFetch ==
    [][\A config \in Configs :
          RefreshStarted(config) =>
              /\ generateCacheKey(config) \notin CacheKeys(recsCache')
              /\ \A j \in 1 .. Len(recsCache) :
                    recsCache[j].key # generateCacheKey(config)
                        => \E k \in 1 .. Len(recsCache') :
                              recsCache'[k] = recsCache[j]
              /\ Len(inFlight') = Len(inFlight) + 1
              /\ LastCall(inFlight').config = config
              /\ LastCall(inFlight').cached = <<>>]_vars

\* C16 witness: a refresh found an entry that had not expired; the entry is
\* gone, the entry of the other fingerprint is still there and the fetch is
\* on its way to the collaborator.
C16_Witness ==
    /\ lastOp.op = "refreshRecommendations"
    /\ lastOp.entry = "live"
    /\ LastCall(inFlight).cached = <<>>
    /\ generateCacheKey(LastCall(inFlight).config) \notin CacheKeys(recsCache)
    /\ Len(recsCache) = 1

\* C17: a fetch is answered from the cache only with a response that was
\* fetched by the request its own config yields (same tenant, environment,
\* model name, collection, fields, pageSize, productID, visitorId, loginId,
\* filters and Shopify-merge setting): configs whose requests differ have
\* different fingerprints.
C17_AnsweredFromOwnRequest ==
    \A i \in 1 .. Len(inFlight) :
        inFlight[i].cached # <<>> =>
            \A k \in 1 .. Len(inFlight[i].cached[1].products) :
                Request(inFlight[i].cached[1].products[k].src)
                    = Request(inFlight[i].config)

----------------------------------------------------------------------------
(* Properties of errors and of the configuration *)

\* C18: when the collaborator rejects a fetch, fetchRecommendations throws
\* RecsFetchError and leaves the store with loading = false and an error
\* message; a fetch that succeeds throws nothing and sets no error message.
C18_ThrownAndMirrored ==
    [][\A i \in 1 .. Len(inFlight) :
          /\ fetchFail(i) => /\ lastOp'.threw = "RecsFetchError"
                             /\ ~store'.loading
                             /\ store'.error # <<>>
          /\ fetchDone(i) => /\ lastOp'.threw = ""
                             /\ store'.error \in {<<>>, store.error}]_vars

\* C18 witness: a fetch has failed after the store was re-initialised for
\* another fingerprint: the error is thrown and the store shows it.
C18_Witness ==
    /\ lastOp.op = "fetchFail"
    /\ lastOp.threw = "RecsFetchError"
    /\ ~lastOp.matched
    /\ ~store.loading
    /\ store.error # <<>>

\* the configs the claim calls invalid
InvalidConfig(config) ==
    \/ config.shopTenant = ""
    \/ config.name = ""
    \/ config.collection = ""
    \/ config.uiPageSize <= 0
    \/ config.cacheTTL # <<>> /\ config.cacheTTL[1] < 0

\* C19: initRecsManager with an invalid config (empty shopTenant, name or
\* collection, uiPageSize <= 0, negative cacheTTL) throws RecsConfigError
\* and changes neither the registry, the store nor the cache, starts no
\* fetch and installs no watcher.
C19_InvalidConfigRejected ==
    [][\A config \in ConfigInputs, id \in InstanceIds :
          (InvalidConfig(config) /\ initRecsManager(config, id))
              => /\ lastOp'.threw = "RecsConfigError"
                 /\ UNCHANGED <<recsManagerInstances, store, recsCache,
                                inFlight, calls, fxWatchers,
                                globalWatchersInitialized>>]_vars

\* C19 witness: an invalid config has been rejected while an instance is
\* registered, a response cached and a fetch in flight.
C19_Witness ==
    /\ lastOp.op = "initRecsManager"
    /\ lastOp.threw = "RecsConfigError"
    /\ DOMAIN recsManagerInstances # {}
    /\ Len(recsCache) > 0
    /\ Len(inFlight) > 0

\* C20: every config of the registry has a non-empty shopTenant, name and
\* collection, uiPageSize > 0, maxApiResults > 0 whenever maxApiResults is
\* given (0 included) and cacheTTL >= 0 whenever cacheTTL is given.
C20_RegistryConfigsValid ==
    \A id \in DOMAIN recsManagerInstances :
        LET config == recsManagerInstances[id].config
        IN  /\ config.shopTenant # ""
            /\ config.name # ""
            /\ config.collection # ""
            /\ config.uiPageSize > 0
            /\ config.maxApiResults # <<>> => config.maxApiResults[1] > 0
            /\ config.cacheTTL # <<>> => config.cacheTTL[1] >= 0

----------------------------------------------------------------------------
(* Properties of the registry and of the navigation API *)

InstanceScoped(id) ==
    \/ fetchRecommendations(id)
    \/ refreshRecommendations(id)
    \/ getCurrentPageProducts_call(id)
    \/ nextPage(id)
    \/ previousPage(id)
    \/ \E k \in PageNumbers : goToPage(k, id)
    \/ \E n \in PageSizes : setPageSize(n, id)

\* C21: fetchRecommendations, getCurrentPageProducts, nextPage,
\* previousPage, goToPage, setPageSize and refreshRecommendations called
\* with an instance id that is not registered fail with RecsInstanceError
\* and change neither the store, the registry nor the cache, and start no
\* fetch.
C21_UnregisteredCallFails ==
    [][\A id \in InstanceIds :
          (id \notin DOMAIN recsManagerInstances /\ InstanceScoped(id))
          => /\ lastOp'.threw = "RecsInstanceError"
             /\ UNCHANGED <<store, recsManagerInstances, recsCache,
                            inFlight, calls>>]_vars

\* C21 witness: instance "a" was initialised, its products are shown on a
\* page other than the first, and a call on the id "b", which is not
\* registered, has just failed.
C21_Witness ==
    /\ DOMAIN recsManagerInstances = {"a"}
    /\ Len(store.products) > 1
    /\ store.currentPage > 1
    /\ lastOp.threw = "RecsInstanceError"
    /\ lastOp.op \in {"fetchRecommendations", "refreshRecommendations",
                      "getCurrentPageProducts", "nextPage", "previousPage",
                      "goToPage", "setPageSize"}

\* C22: setPageSize(n) with n <= 0 on a registered instance throws (a
\* RecsConfigError) and leaves the whole recommendation state unchanged.
C22_NonPositivePageSizeRejected ==
    [][\A id \in InstanceIds : \A n \in PageSizes :
          (n <= 0 /\ id \in DOMAIN recsManagerInstances /\ setPageSize(n, id))
          => /\ lastOp'.threw = "RecsConfigError"
             /\ UNCHANGED <<store, recsManagerInstances, recsCache,
                            inFlight>>]_vars

\* C22 witness: setPageSize was called with a size <= 0 while products were
\* shown on a page other than the first, and threw.
C22_Witness ==
    /\ lastOp.op = "setPageSize"
    /\ lastOp.arg <= 0
    /\ lastOp.threw = "RecsConfigError"
    /\ Len(store.products) > 1
    /\ store.currentPage > 1

\* C23: when products is empty, nextPage, previousPage, goToPage,
\* setPageSize (with a size > 0), jumpToFirstPage and jumpToLastPage on a
\* registered instance leave the recommendation state unchanged and throw
\* nothing.
C23_EmptyProductsNoOp ==
    [][Len(store.products) = 0 =>
          /\ \A id \in JumpIds :
                (/\ id \in DOMAIN recsManagerInstances
                 /\ \/ nextPage(id)
                    \/ previousPage(id)
                    \/ \E k \in PageNumbers : goToPage(k, id)
                    \/ \E n \in PageSizes : n > 0 /\ setPageSize(n, id))
                => (store' = store /\ lastOp'.threw = "")
          /\ (/\ "default" \in DOMAIN recsManagerInstances
              /\ (jumpToFirstPage \/ jumpToLastPage))
             => (store' = store /\ lastOp'.threw = "")]_vars

C25_ReinitReplacesConfig ==
    [][\A config \in ConfigInputs : \A id \in InstanceIds :
          (validateConfig(config) = "" /\ initRecsManager(config, id))
          => /\ DOMAIN recsManagerInstances' =
                   DOMAIN recsManagerInstances \cup {id}
             /\ recsManagerInstances'[id].config = config
             /\ recsManagerInstances'[id].cacheKey = generateCacheKey(config)
             /\ \A j \in DOMAIN recsManagerInstances \ {id} :
                   recsManagerInstances'[j] = recsManagerInstances[j]
             /\ store'.uiPageSize = config.uiPageSize
             /\ store'.cacheKey = <<generateCacheKey(config)>>
             /\ (/\ id \in DOMAIN recsManagerInstances
                 /\ recsManagerInstances[id].config = config)
                => recsManagerInstances' = recsManagerInstances]_vars

\* C25 witness: instance "a", the only one, was initialised with CfgP2 and
\* then with CfgP1, which it now holds.
C25_Witness ==
    /\ lastOp.op = "initRecsManager"
    /\ lastOp.threw = ""
    /\ lastOp.preSize = CfgP2.uiPageSize
    /\ calls >= 2
    /\ DOMAIN recsManagerInstances = {"a"}
    /\ recsManagerInstances["a"].config = CfgP1

NavigationCall ==
    \/ \E id \in JumpIds : nextPage(id)
    \/ \E id \in JumpIds : previousPage(id)
    \/ \E k \in PageNumbers, id \in JumpIds : goToPage(k, id)
    \/ \E n \in PageSizes, id \in JumpIds : setPageSize(n, id)
    \/ jumpToFirstPage
    \/ jumpToLastPage

FetchedFields ==
    {"products", "rawResponse", "loading", "error", "lastFetched", "cacheKey"}

\* C26: nextPage, previousPage, goToPage, setPageSize, jumpToFirstPage and
\* jumpToLastPage never invoke the collaborator and never change products,
\* rawResponse, loading, error, lastFetched, cacheKey or the cache.
C26_NavigationFrame ==
    [][NavigationCall =>
          /\ UNCHANGED <<recsCache, inFlight, calls, recsManagerInstances>>
          /\ \A f \in FetchedFields : store'[f] = store[f]]_vars

\* C26 witness: with products loaded and their response in the cache,
\* jumpToLastPage has moved the current page.
C26_Witness ==
    /\ lastOp.op = "jumpToLastPage"
    /\ lastOp.threw = ""
    /\ store.currentPage # lastOp.prePage
    /\ Len(store.products) > 1
    /\ Len(recsCache) > 0

\* the items at the indices (p - 1) * size .. min(p * size, n) - 1 of
\* products (indices from 0), in order
ItemsOfPage(products, size, p) ==
    [i \in 1 .. (Min(p * size, Len(products)) - (p - 1) * size) |->
        products[(p - 1) * size + i]]

PageAt(p) == getCurrentPageProducts_of([store EXCEPT !.currentPage = p])

RECURSIVE PagesUpTo(_)
PagesUpTo(p) == IF p = 0 THEN <<>> ELSE PagesUpTo(p - 1) \o PageAt(p)

\* C27: with products non-empty and currentPage within 1..ceil(n /
\* uiPageSize), getCurrentPageProducts returns exactly the items at the
\* indices (currentPage - 1) * uiPageSize .. min(currentPage * uiPageSize,
\* n) - 1, in order; the pages 1..totalPages, one after the other, are the
\* products, each once; every page but the last has uiPageSize items and
\* the last page is not empty.
C27_PagePartitionsProducts ==
    Len(store.products) > 0 =>
        LET size == store.uiPageSize
            last == TotalPagesOf(store)
        IN  /\ InRange(store) =>
                  \A id \in DOMAIN recsManagerInstances :
                      getCurrentPageProducts(id) =
                          ItemsOfPage(store.products, size, store.currentPage)
            /\ \A p \in 1 .. last :
                  /\ PageAt(p) = ItemsOfPage(store.products, size, p)
                  /\ p < last => Len(PageAt(p)) = size
            /\ Len(PageAt(last)) > 0
            /\ PagesUpTo(last) = store.products

\* C27 witness: three products, two to a page; getCurrentPageProducts has
\* returned the one item of page 2.
C27_Witness ==
    /\ lastOp.op = "getCurrentPageProducts"
    /\ lastOp.arg = 1
    /\ Len(store.products) = 3
    /\ store.uiPageSize = 2
    /\ store.currentPage = 2

\* C28: for every pageSize > 0, totalItems >= 0 and integer currentPage
\* (0, negative and beyond the last page included), calculatePaginationInfo
\* returns totalPages = max(1, ceil(totalItems / pageSize)), 0 <=
\* pageStartIndex <= pageEndIndex <= totalItems, pageEndIndex -
\* pageStartIndex <= pageSize, hasPreviousPage = ~isFirstPage and
\* hasNextPage = ~isLastPage; for totalItems = 0 it is one empty page.
C28_PaginationInfoBounds ==
    lastOp.op = "calculatePaginationInfo" =>
        LET pageSize == lastOp.preSize
            totalItems == lastOp.arg
            info == calculatePaginationInfo(lastOp.prePage, pageSize,
                                           totalItems)
        IN  /\ info.totalPages >= 1
            /\ info.totalPages * pageSize >= totalItems
            /\ info.totalPages > 1 =>
                  (info.totalPages - 1) * pageSize < totalItems
            /\ 0 <= info.pageStartIndex
            /\ info.pageStartIndex <= info.pageEndIndex
            /\ info.pageEndIndex <= totalItems
            /\ info.pageEndIndex - info.pageStartIndex <= pageSize
            /\ info.hasPreviousPage = ~info.isFirstPage
            /\ info.hasNextPage = ~info.isLastPage
            /\ totalItems = 0 =>
                  /\ info.totalPages = 1
                  /\ info.pageStartIndex = 0 /\ info.pageEndIndex = 0
                  /\ info.isFirstPage /\ info.isLastPage

\* C28 witness: calculatePaginationInfo was called for 7 items by pages of
\* 3 with a currentPage beyond the last page.
C28_Witness ==
    /\ lastOp.op = "calculatePaginationInfo"
    /\ lastOp.arg = 7
    /\ lastOp.preSize = 3
    /\ lastOp.prePage > 3
    /\ calculatePaginationInfo(lastOp.prePage, 3, 7).pageStartIndex = 6
    /\ calculatePaginationInfo(lastOp.prePage, 3, 7).pageEndIndex = 7

\* C29: with products non-empty, jumpToFirstPage leaves currentPage = 1
\* and jumpToLastPage leaves currentPage = ceil(products.length /
\* uiPageSize), in every reachable state.
C29_JumpReachesEnds ==
    [][Len(store.products) > 0 =>
          /\ jumpToFirstPage => store'.currentPage = 1
          /\ jumpToLastPage => store'.currentPage = TotalPagesOf(store)]_vars

----------------------------------------------------------------------------
(* Properties of the UI functions *)

\* C30: nextPage of the UI functions increases recsInputStore.currentPage
\* by exactly 1 and sets hasRequested only when currentPage + 1 <
\* recsOutputStore.pagination.totalPages, previousPage decreases it by
\* exactly 1 and sets hasRequested only when currentPage > 0; at either
\* boundary (totalPages = 0 and a negative currentPage included) the whole
\* input state, hasRequested included, is unchanged.
C30_UiNavigationBounded ==
    [][/\ nextPage_ui =>
             /\ recsInputStore' =
                   IF recsInputStore.currentPage + 1
                         < recsOutputStore.pagination.totalPages
                   THEN [recsInputStore EXCEPT
                            !.currentPage = recsInputStore.currentPage + 1,
                            !.hasRequested = TRUE]
                   ELSE recsInputStore
             /\ UNCHANGED recsOutputStore
       /\ previousPage_ui =>
             /\ recsInputStore' =
                   IF recsInputStore.currentPage > 0
                   THEN [recsInputStore EXCEPT
                            !.currentPage = recsInputStore.currentPage - 1,
                            !.hasRequested = TRUE]
                   ELSE recsInputStore
             /\ UNCHANGED recsOutputStore]_vars

\* C30 witness: nextPage was called on the last page of several and left
\* the input state as it was, hasRequested still false.
C30_Witness ==
    /\ lastOp.op = "ui.nextPage"
    /\ recsOutputStore.pagination.totalPages > 1
    /\ recsInputStore.currentPage = recsOutputStore.pagination.totalPages - 1
    /\ lastOp.prePage = recsInputStore.currentPage
    /\ ~recsInputStore.hasRequested

C32_ResetAndFetchFrame ==
    [][/\ resetRecs =>
             /\ recsInputStore' = [recsInputStore EXCEPT
                                      !.currentPage = 0,
                                      !.hasRequested = TRUE]
             /\ resetRecs_updater(recsInputStore') = recsInputStore'
             /\ UNCHANGED recsOutputStore
       /\ fetchRecommendations_ui =>
             /\ recsInputStore' = [recsInputStore EXCEPT
                                      !.hasRequested = TRUE]
             /\ fetchRecommendations_updater(recsInputStore')
                   = recsInputStore'
             /\ UNCHANGED recsOutputStore]_vars

\* C32 witness: resetRecs was called on a later page of a request with a
\* name, a productID and a page size of its own, which it still has.
C32_Witness ==
    /\ lastOp.op = "ui.resetRecs"
    /\ lastOp.prePage > 0
    /\ recsInputStore.currentPage = 0
    /\ recsInputStore.hasRequested
    /\ recsInputStore.name = "test-model"
    /\ recsInputStore.productID = <<"test-product">>
    /\ recsInputStore.pageSize # initialRecsParams.pageSize

----------------------------------------------------------------------------
(* Properties of the recommendations manager over longer runs *)

\* C35: once every fetch in flight has settled and no new fetch has been
\* started, state.loading is false, for every interleaving of
\* initRecsManager, fetchRecommendations and refreshRecommendations over
\* one or several instances.
C35_SettledMeansNotLoading ==
    inFlight = <<>> => ~store.loading

\* C36: whenever products is non-empty, 1 <= currentPage <=
\* ceil(products.length / uiPageSize), after every operation (a refresh
\* that returns fewer products than before included), so that
\* getCurrentPageProducts never returns an empty page while products exist.
C36_CurrentPageInRange ==
    Len(store.products) > 0 =>
        /\ InRange(store)
        /\ getCurrentPageProducts_of(store) # <<>>

\* C38: after the last instance has been destroyed the store equals the
\* initial state until the next initRecsManager, even if a fetch started
\* before the destroy succeeds or fails afterwards.
C38_DestroyedStoreStaysInitial ==
    recsManagerInstances = <<>> => store = initialState

\* C39: in every reachable state canNavigateNext() is true exactly when
\* currentPage < ceil(products.length / uiPageSize) and
\* canNavigatePrevious() is true exactly when currentPage > 1.
C39_CanNavigateMatchesPage ==
    /\ canNavigateNext = (store.currentPage < TotalPagesOf(store))
    /\ canNavigatePrevious = (store.currentPage > 1)

\* the step is a call of initRecsManager, fetchRecommendations or
\* refreshRecommendations that reaches fetchRecsFx with config
CallStarted(config) == FetchStarted(config) \/ RefreshStarted(config)
\* the cache without the entry of cacheKey
WithoutEntry(cache, cacheKey) ==
    LET i == CacheIndex(cache, cacheKey)
    IN  IF i = 0 THEN cache ELSE RemoveAt(cache, i)
\* the calls in flight that wait for the collaborator
Invocations(seq) == {i \in 1 .. Len(seq) : seq[i].cached = <<>>}

\* C40 (as stated): a call whose collaborator invocation fails leaves the
\* cache as it was before the call: the call removed nothing from the cache
\* when it started and the failure writes nothing.  Stated for a call that
\* fails right after it started.
C40_FailureLeavesCacheAsBeforeCall ==
    [][\A i \in 1 .. Len(inFlight) :
          (/\ fetchFail(i)
           /\ i = Len(inFlight)
           /\ lastOp.threw = ""
           /\ lastOp.op \in {"initRecsManager", "fetchRecommendations",
                              "refreshRecommendations"})
          => /\ recsCache' = recsCache
             /\ lastOp.entry = "absent"]_vars

\* C40 (amended): each call of initRecsManager, fetchRecommendations or
\* refreshRecommendations starts at most one collaborator invocation and
\* removes from the cache at most the entry of its own fingerprint (the
\* entry refreshRecommendations deletes, or an expired one); a failing
\* invocation ends that call, writes no cache entry and starts no other
\* invocation.
C40_FailedFetchNoWriteNoRetry ==
    [][/\ \A config \in CacheConfigs :
             CallStarted(config) =>
                /\ Len(inFlight') = Len(inFlight) + 1
                /\ Cardinality(Invocations(inFlight')) <=
                      Cardinality(Invocations(inFlight)) + 1
                /\ recsCache' \in
                      {recsCache,
                       WithoutEntry(recsCache, generateCacheKey(config))}
       /\ \A i \in 1 .. Len(inFlight) :
             fetchFail(i) =>
                /\ recsCache' = recsCache
                /\ inFlight' = RemoveAt(inFlight, i)
                /\ Invocations(inFlight') \subseteq 1 .. (Len(inFlight) - 1)
                /\ Cardinality(Invocations(inFlight')) =
                      Cardinality(Invocations(inFlight)) - 1
                /\ calls' = calls]_vars

\* C40 witness: a collaborator invocation has failed, the store shows its
\* error, nothing is in flight and the cache still holds an entry
C40_Witness ==
    /\ lastOp.op = "fetchFail"
    /\ inFlight = <<>>
    /\ Len(recsCache) > 0
    /\ store.error # <<>>

\* C37: once initRecsManager has installed the store watcher the store
\* updates quiesce: fewer than MaxWatcherUpdates updates follow the call
\* (finitely many, whatever the bound), so that every event is handled and
\* initRecsManager can return.
C37_StoreUpdatesQuiesce ==
    storeWatch.updates < MaxWatcherUpdates

\* the store always has an event of the watcher left to handle once a
\* watcher is installed: the call that installed it never goes on
WatcherNeverIdle ==
    storeWatch.watchers > 0 => storeWatch.queue > 0 /\ storeWatch.caller # <<>>

----------------------------------------------------------------------------
(* Properties of the search manager and of the URL manager *)

\* the step is an update of the input store made on a user's action
UserStep ==
    lastOp'.op \in {"handleSearchInput", "handleRefinementChange",
                    "handlePreviousPage", "popstate"}

\* C33: one change of the search input store that passes the trigger
\* filter causes exactly one call of searchFx, and one that does not pass
\* causes none; the update that clears hasSubmitted when a search completes
\* causes no call of searchFx, whatever the input state; so there are never
\* more calls of searchFx than user actions, the initial search apart.
C33_OneSearchPerUserAction ==
    [][/\ UserStep =>
             searchStats'.searchFxCalls = searchStats.searchFxCalls +
                (IF searchManagerInitialized /\ searchFilter(searchInputStore')
                 THEN 1 ELSE 0)
       /\ \A i \in 1 .. Len(searchInFlight) :
             searchDone(i) =>
                searchStats'.searchFxCalls = searchStats.searchFxCalls
       /\ searchStats'.searchFxCalls <= searchStats'.userActions + 1]_vars

\* C34: handling a popstate event never calls history.pushState: not in
\* the update the popstate listener makes, and not in the update that
\* clears hasSubmitted when the search started by that update completes.
C34_PopstateNeverPushes ==
    [][/\ lastOp'.op = "popstate" =>
             searchStats'.pushStateCalls = searchStats.pushStateCalls
       /\ \A i \in 1 .. Len(searchInFlight) :
             (searchDone(i) /\ searchInFlight[i].origin = "popstate") =>
                searchStats'.pushStateCalls = searchStats.pushStateCalls]_vars

====
